---- MODULE Spec2Model ----
(***************************************************************************)
(* Synchronisation and session engine of ModernNav.                        *)
(*                                                                         *)
(* Eight specifications share the variables below; each one runs one part  *)
(* of the program and keeps the others at rest:                            *)
(*   Spec      the timestamp+dirty storage service                         *)
(*   SpecDF    the dirty-flag storage service (src/src/services/storage.ts)*)
(*   SpecTD    the timer-debounced storage service (src/unnamed/part_004)  *)
(*   SpecAuth  the /api/auth and /api/update handlers by themselves        *)
(*   SpecSess  the session of the dirty-flag service against the           *)
(*             signed-token /api/auth                                      *)
(*   SpecRf    /api/auth on KV sessions, one KV call at a time             *)
(*   SpecWrap  wrapData and processSync applied to bounded inputs          *)
(*   SpecBc    the dirty-flag storage service against the caching          *)
(*             /api/bootstrap (src/unnamed/part_003)                       *)
(*                                                                         *)
(* Spec models the timestamp+dirty storage service                         *)
(* (src/services/storage.ts) running in one browser tab against the        *)
(* KV-backed endpoints (src/functions/api/auth.ts, update.ts,              *)
(* bootstrap.ts).  Every `await` on a fetch is a point where other events  *)
(* interleave: a request is first "sent", then handled by the endpoint,    *)
(* then its response is handled by the client (or the fetch rejects).      *)
(* Continuations of promises that were resolved by the same event run as   *)
(* microtasks before any other event.                                      *)
(***************************************************************************)
EXTENDS Integers, Naturals, Sequences, FiniteSets, Bags, TLC

\* ------------------------------------------------------------------ bounds
MaxCalls == 2      \* calls of the public API and 'online' events per run
MaxOther == 1      \* pushes of other devices per run
MaxTok   == 2      \* access/refresh pairs the auth endpoint issues per run
NumSlices == 2     \* slices of LS_KEYS in use (the engine has three)

\* --------------------------------------------------------------- constants
\* LS_KEYS, in the order syncPendingChanges walks them (lines 506-510)
SliceOrder == <<"categories", "background", "prefs">>

Slices == {SliceOrder[i] : i \in 1..NumSlices}

UsedOrder == SubSeq(SliceOrder, 1, NumSlices)

\* Date.now() of the first event; real timestamps are far above the
\* updatedAt = 1 that processSync gives to unversioned cloud data.
ClockStart == 2

\* the refresh token an earlier session of this browser was given
PriorRefresh == MaxTok + 1

\* the value KV holds after put("background", <object>) when the platform
\* coerces the object to a string instead of rejecting it
ObjectString == 99

VARIABLES
  ls,             \* localStorage: slice -> cache entry
  accessToken,    \* _accessToken (0 = null)
  isRefreshing,   \* _isRefreshing
  subscribers,    \* _refreshSubscribers: the callers queued on the refresh
  microtasks,     \* resolved continuations not yet run
  inflight,       \* bag of suspended async calls (each awaits a fetch)
  syncTimers,     \* pending setTimeout(syncPendingChanges, 500) of login
  cookie,         \* the browser's refresh_token cookie (0 = none)
  kv,             \* KV_STORE data keys: slice -> stored value
  kvRefresh,      \* KV_STORE refresh:<token> keys
  expired,        \* access tokens 1..expired have passed their TTL
  nextTok,        \* next token pair generateToken() returns
  nCalls,         \* calls made so far
  nOther,         \* pushes other devices made so far
  loggedOut,      \* logout() has completed and no login() succeeded since
  lastSave,       \* slice -> the value of the latest save call; 0 when there
                  \* was none or a save of the slice was stored as a guest's
  emitted         \* observable effects of the last step (notifications,
                  \* callbacks, return values)

engineVars == <<ls, accessToken, isRefreshing, subscribers, microtasks,
                inflight, syncTimers, cookie, kv, kvRefresh, expired, nextTok,
                nCalls, nOther, loggedOut, lastSave, emitted>>

\* the dirty-flag storage service (src/src/services/storage.ts) with the
\* endpoints it calls
VARIABLES
  dfLocal,        \* localStorage: slice -> cached value (0 = no item)
  dfDirty,        \* storageService._dirty, as persisted under LS_KEYS.DIRTY
  dfPendingSync,  \* storageService._pendingSync
  dfOnline,       \* storageService._isOnline
  dfToken,        \* ensureAccessToken() finds a token
  dfElapsed,      \* Date.now() - _lastSaveTime, in debounce windows
  dfHeld,         \* slice -> its latest save returned at the debounce test
  dfRemote,       \* the remote store: slice -> value (0 = null)
  dfInflight,     \* bag of suspended calls of the service
  dfCalls,        \* calls made so far
  dfEmitted       \* observable effects of the last step

dfVars == <<dfLocal, dfDirty, dfPendingSync, dfOnline, dfToken, dfElapsed,
            dfHeld, dfRemote, dfInflight, dfCalls, dfEmitted>>

\* what a step of the timestamp+dirty service leaves alone
VARIABLES
  tdLocal,        \* localStorage of the timer-debounced service, per slice
  tdTimers,       \* bag of the debounce timers that have not run out
  tdTimer,        \* _saveDebounceTimer: the timer set last
  tdToken,        \* getAccessToken() finds a token
  tdRefreshing,   \* _isRefreshing
  tdSubscribers,  \* _refreshSubscribers
  tdInflight,     \* bag of its requests in flight
  tdRemote,       \* what /api/update has stored for it, per slice
  tdCalls,        \* save calls made
  tdDenied,       \* update requests answered with an error
  tdBurst,        \* history: the saves since a timer last ran out
  tdEmitted       \* what its last step did

tdVars == <<tdLocal, tdTimers, tdTimer, tdToken, tdRefreshing, tdSubscribers,
            tdInflight, tdRemote, tdCalls, tdDenied, tdBurst, tdEmitted>>

VARIABLES
  auVariant,      \* which /api/auth handler is deployed
  auCode,         \* the stored auth_code
  auStore,        \* what /api/update has stored, per key
  auKv,           \* the access:<token> and refresh:<token> keys of KV
  auNow,          \* Date.now() on the server
  auIssued,       \* history: the tokens issued, when, and signed with what
  auStale         \* history: those issued before the last code change

auVars == <<auVariant, auCode, auStore, auKv, auNow, auIssued, auStale>>

VARIABLES
  seMem,          \* _accessToken of the dirty-flag service
  seStored,       \* localStorage ACCESS_TOKEN
  seExpiry,       \* localStorage TOKEN_EXPIRY against Date.now()
  seLoggedOut,    \* localStorage USER_LOGGED_OUT is "true"
  seRefreshing,   \* _isRefreshing
  seSubscribers,  \* _refreshSubscribers
  seCookie,       \* the refresh_token cookie the browser holds
  seInflight,     \* bag of its requests to /api/auth in flight
  seCalls,        \* calls of the public API made
  seEmitted       \* what its last step did

seVars == <<seMem, seStored, seExpiry, seLoggedOut, seRefreshing,
            seSubscribers, seCookie, seInflight, seCalls, seEmitted>>

VARIABLES
  rfHandlers,     \* the /api/auth requests on KV being handled, step by step
  rfDone,         \* history: the cookies of the refresh requests answered
  rfExchanged,    \* history: the cookies answered with a new pair
  rfReqs,         \* requests received
  rfEmitted       \* the responses sent by the last step

rfVars == <<rfHandlers, rfDone, rfExchanged, rfReqs, rfEmitted>>

VARIABLES
  pfCurrent,      \* a value as localStorage holds it
  pfCloud,        \* a value as the bootstrap response holds it
  pfDefault,      \* the default of the slice
  pfOut           \* what the function last applied returned

pfVars == <<pfCurrent, pfCloud, pfDefault, pfOut>>

VARIABLES
  bcCache,        \* the entry "bootstrap_data" of the endpoint's cache, if fresh
  bcLog,          \* history: the values written to the config table, per slice
  bcMine          \* history: which of them this device wrote last, per slice

bcVars == <<bcCache, bcLog, bcMine>>

notEngine == <<dfVars, tdVars, auVars, seVars, rfVars, pfVars, bcVars>>

\* what a step of the dirty-flag service leaves alone
notDf == <<engineVars, tdVars, auVars, seVars, rfVars, pfVars, bcVars>>

notTd == <<engineVars, dfVars, auVars, seVars, rfVars, pfVars, bcVars>>

notAu == <<engineVars, dfVars, tdVars, seVars, rfVars, pfVars, bcVars>>

\* what a step of the session leaves alone, the endpoints apart
notSe == <<engineVars, dfVars, tdVars, rfVars, pfVars, bcVars>>

\* what a step of a request on KV leaves alone, the endpoints apart
notRf == <<engineVars, dfVars, tdVars, seVars, pfVars, bcVars>>

notPf == <<engineVars, dfVars, tdVars, auVars, seVars, rfVars, bcVars>>

vars == <<engineVars, dfVars, tdVars, auVars, seVars, rfVars, pfVars,
          bcVars>>

\* ------------------------------------- the dirty-flag service: constants
DfMaxCalls == 3    \* calls of the public API and events per run

\* the slices the dirty-flag service is run with; prefs has its own
\* debounce window and is the one slice whose save can be forced
DfSlices == {"categories", "prefs"}

\* the order in which its syncPendingChanges visits them
DfOrder == <<"categories", "prefs">>

\* const debounceTime = type === "prefs" ? 300 : 1000: the time since
\* _lastSaveTime is counted in the windows it has outlasted
PrefsWindow == 1

SaveWindow == 2

\* INITIAL_CATEGORIES / DEFAULT_PREFS
DfDefault == -1

\* the dirty-flag service at rest, while another service is looked at
DfOff ==
  /\ dfLocal = [s \in DfSlices |-> 0]
  /\ dfDirty = [s \in DfSlices |-> FALSE]
  /\ dfPendingSync = FALSE
  /\ dfOnline = TRUE
  /\ dfToken = FALSE
  /\ dfElapsed = SaveWindow
  /\ dfHeld = [s \in DfSlices |-> FALSE]
  /\ dfRemote = [s \in DfSlices |-> 0]
  /\ dfInflight = EmptyBag
  /\ dfCalls = 0
  /\ dfEmitted = {}

\* ------------------------------- the timer-debounced service: constants
TdMaxCalls == 3    \* save calls per run

TdMaxDenied == 2   \* update requests answered with an error per run

\* the slices the timer-debounced service is run with
TdSlices == {"categories", "prefs"}

\* _saveDebounceTimer = null
NoTimer == [slice |-> "none", data |-> 0]

\* a record of the saves since the debounce timer last ran out: how many,
\* the latest value, the update requests sent for them, and whether they
\* all went to one slice with a token at hand and every request answered 200
NoBurst == [slice |-> "none", k |-> 0, last |-> 0, sent |-> <<>>, pre |-> TRUE]

\* the timer-debounced service at rest, while another service is looked at
TdOff ==
  /\ tdLocal = [s \in TdSlices |-> 0]
  /\ tdTimers = EmptyBag
  /\ tdTimer = NoTimer
  /\ tdToken = FALSE
  /\ tdRefreshing = FALSE
  /\ tdSubscribers = <<>>
  /\ tdInflight = EmptyBag
  /\ tdRemote = [s \in TdSlices |-> 0]
  /\ tdCalls = 0
  /\ tdDenied = 0
  /\ tdBurst = NoBurst
  /\ tdEmitted = {}

\* ---------------------------- the auth and update endpoints: constants
AuMaxTime == 3     \* ticks of the server clock per run

AuMaxIssue == 2    \* access/refresh pairs issued per run

\* ACCESS_TTL and REFRESH_TTL, counted in ticks of the server clock
AccessTtl == 1

RefreshTtl == 3

\* the three /api/auth handlers: KV sessions (auth.ts), tokens signed with
\* the access code on KV (update.ts lines 49-209) and on D1 (part_002)
Variants == {"kv", "stateless", "d1"}

\* the keys /api/update writes
Keys == {"categories", "background", "prefs"}

\* a body field that is undefined, a KV key or a row that is absent
Undef == "undefined"

\* storedCode when no code is stored: || "admin"
DefaultCode == "admin"

\* no Authorization header; no refresh_token cookie
NoHeader == [scheme |-> "none", tok |-> <<>>]

NoCookie == <<>>

\* a key of the store that was never written
NoValue == [enc |-> "none", t |-> "undefined", v |-> 0]

\* no request handled yet
NoRequest == [ep |-> "none", variant |-> "none", action |-> Undef,
              code |-> Undef, cur |-> Undef, new |-> Undef,
              hdr |-> NoHeader, cookie |-> NoCookie, type |-> Undef,
              data |-> [t |-> "undefined", v |-> 0]]

\* the endpoints at rest, while a storage service is looked at
AuOff ==
  /\ auVariant = "kv"
  /\ auCode = Undef
  /\ auStore = [k \in Keys |-> NoValue]
  /\ auKv = {}
  /\ auNow = 0
  /\ auIssued = {}
  /\ auStale = {}

\* ------------------------- the session of the dirty-flag service: constants
SeMaxCalls == 3    \* calls of the public API and page loads per run

\* the session at rest, while another part is looked at
SeOff ==
  /\ seMem = <<>>
  /\ seStored = <<>>
  /\ seExpiry = "none"
  /\ seLoggedOut = FALSE
  /\ seRefreshing = FALSE
  /\ seSubscribers = <<>>
  /\ seCookie = <<>>
  /\ seInflight = EmptyBag
  /\ seCalls = 0
  /\ seEmitted = {}

\* ------------------------------------ wrapData and processSync: bounds
PfMaxData == 2     \* values a slice is tried with

PfMaxTime == 2     \* the largest updatedAt tried

RfMaxReqs == 3     \* requests to /api/auth handled step by step per run

RfMaxPairs == 3    \* access/refresh pairs generated per such run

\* the stepwise handlers at rest
RfOff ==
  /\ rfHandlers = {}
  /\ rfDone = {}
  /\ rfExchanged = {}
  /\ rfReqs = 0
  /\ rfEmitted = {}

\* no function applied
PfOff ==
  /\ pfCurrent = 0
  /\ pfCloud = 0
  /\ pfDefault = 0
  /\ pfOut = 0

\* the cache of the bootstrap endpoint empty, nothing written yet
BcOff ==
  /\ bcCache = <<>>
  /\ bcLog = [s \in DfSlices |-> <<>>]
  /\ bcMine = [s \in DfSlices |-> 0]

\* Date.now(): the calls of a run are made at successive instants
Now == ClockStart + nCalls + nOther

\* ------------------------------------------------------------ data shapes
\* StorageWrapper<T>; kind tells what the stored JSON is
Entry(kind, data, updatedAt, dirty) ==
  [kind |-> kind, data |-> data, updatedAt |-> updatedAt, dirty |-> dirty]

Wrapper(data, updatedAt, dirty) == Entry("wrapper", data, updatedAt, dirty)

NoEntry == Entry("absent", 0, 0, FALSE)

NullBody == [s \in Slices |-> NoEntry]

\* a suspended call: op is the function, pc the await it is suspended at
Task(op, slice) ==
  [op |-> op, pc |-> "start", slice |-> slice, w |-> NoEntry, tok |-> 0,
   force |-> FALSE, reqs |-> 0, st |-> "none", ck |-> 0, atok |-> 0,
   setck |-> -1, good |-> FALSE, lo |-> FALSE, body |-> NullBody]

Put(bag, t) == bag (+) SetToBag({t})

Take(bag, t) == bag (-) SetToBag({t})

InFlight == BagToSet(inflight)

\* ---------------------------------------------------------------- helpers
\* processSync, lines 391-407: the wrapper the cache currently holds
CurrentWrapper(e) ==
  IF e.kind = "wrapper" THEN e
  ELSE IF e.kind = "raw" THEN Wrapper(e.data, 0, FALSE)
  ELSE Wrapper(0, 0, FALSE)

\* CloudWrapper with a legacy value stamped 0 like a default
CloudWrapperUnstamped(c) ==
  IF c.kind = "wrapper" THEN c
  ELSE IF c.kind = "raw" THEN Wrapper(c.data, 0, FALSE)
  ELSE Wrapper(0, 0, FALSE)

\* processSync, lines 409-418: the wrapper of the bootstrap value
CloudWrapper(c) ==
  IF c.kind = "wrapper" THEN c
  ELSE IF c.kind = "raw" THEN Wrapper(c.data, 1, FALSE)
  ELSE Wrapper(0, 0, FALSE)

\* Adopts without the dirty check
AdoptsIgnoringDirty(e, c) ==
  CloudWrapper(c).updatedAt > CurrentWrapper(e).updatedAt

\* Adopts with >= for >
AdoptsNotOlder(e, c) ==
  /\ ~CurrentWrapper(e).dirty
  /\ CloudWrapper(c).updatedAt >= CurrentWrapper(e).updatedAt

\* processSync, line 420: the remote value replaces the cached one
Adopts(e, c) ==
  /\ ~CurrentWrapper(e).dirty
  /\ CloudWrapper(c).updatedAt > CurrentWrapper(e).updatedAt

\* processSync: the cache entry after reconciliation
ProcessSync(e, c) == IF Adopts(e, c) THEN CloudWrapper(c) ELSE e

\* processSync: the value handed to onCloudUpdate
SyncedVal(e, c) ==
  IF Adopts(e, c) THEN CloudWrapper(c).data ELSE CurrentWrapper(e).data

\* processKey, lines 475-479: the slice has something to push
IsDirty(e) == e.kind = "wrapper" /\ e.dirty

\* DirtySeq that takes every cached wrapper
WrapperSeq(l) == SelectSeq(UsedOrder, LAMBDA s : l[s].kind = "wrapper")

\* syncPendingChanges, lines 506-510: the slices processKey pushes
DirtySeq(l) == SelectSeq(UsedOrder, LAMBDA s : IsDirty(l[s]))

\* update.ts line 19: the access:<token> key exists
AccessValid(tok) == tok > expired /\ tok < nextTok


\* the transient request/response fields of a call that moves on
Settled(t) == [t EXCEPT !.st = "none", !.ck = 0, !.atok = 0, !.setck = -1]

\* SaveDirty that marks every save dirty
AlwaysDirty(tok) == TRUE

\* _saveItem, lines 293-299: the dirty flag of the wrapper a save stores
SaveDirty(tok) == tok # 0

\* JoinsRefresh without the _isRefreshing test
NeverJoins(flag) == FALSE

\* ensureAccessToken, line 143: the caller joins the refresh in flight
JoinsRefresh(flag) == flag

\* Retries401 without the retry
NeverRetries(status, forceRefresh) == FALSE

\* trySync, line 332: a 401 answer is retried
Retries401(status, forceRefresh) == status = "401" /\ ~forceRefresh

\* trySync lines 338-340 and processKey lines 493-495: the cache entry
\* written when the update request was answered 2xx
Acked(w, cur) == Wrapper(w.data, w.updatedAt, FALSE)

Init ==
  /\ ls = [s \in Slices |-> NoEntry]
  /\ accessToken = 0
  /\ isRefreshing = FALSE
  /\ subscribers = <<>>
  /\ microtasks = <<>>
  \* whether an earlier session left a refresh cookie in the browser
  /\ \E c \in {0, PriorRefresh} :
       /\ cookie = c
       /\ kvRefresh = IF c = 0 THEN {} ELSE {c}
       \* storageService.init(), line 168: tryRefreshToken() at module load
       /\ inflight = SetToBag({[Task("init", "none") EXCEPT
                                 !.pc = "refresh_sent", !.ck = c]})
  /\ nextTok = 1
  /\ expired = 0
  /\ syncTimers = 0
  /\ kv = [s \in Slices |-> Entry("null", 0, 0, FALSE)]
  /\ nCalls = 0
  /\ nOther = 0
  /\ loggedOut = FALSE
  /\ lastSave = [s \in Slices |-> 0]
  /\ emitted = {}
  /\ DfOff
  /\ TdOff
  /\ AuOff
  /\ SeOff
  /\ RfOff
  /\ PfOff
  /\ BcOff

\* what an observer of _saveItem sees when the save t ends on outcome st:
\* the wrapper it pushed and the cache entry its last handler found
SaveEnd(t, st) ==
  [ev |-> "saveEnd", slice |-> t.slice, st |-> st, force |-> t.force,
   reqs |-> t.reqs, w |-> t.w, was |-> ls[t.slice]]

\* -------------------------------------------------- continuations of calls
\* the code of caller t that follows `await ensureAccessToken()`, run with
\* the token the call returned; base is the bag of the other suspended calls
Resume(t, tok, base, evs) ==
  IF t.op = "save" /\ ~t.force THEN
    \* _saveItem, lines 294-312 and trySync up to the fetch of line 323
    LET w == Wrapper(t.w.data, t.w.updatedAt, SaveDirty(tok)) IN
      /\ ls' = [ls EXCEPT ![t.slice] = w]
      /\ IF w.dirty
           THEN inflight' = Put(base, [Settled(t) EXCEPT !.pc = "upd_sent",
                                !.w = w, !.tok = tok, !.reqs = 1])
           ELSE inflight' = base
      /\ emitted' = evs \cup {[ev |-> "stored", slice |-> t.slice,
                               tok |-> tok, w |-> t.w]}
  ELSE IF t.op = "save" THEN
    \* trySync(true), lines 318-330
    /\ ls' = ls
    /\ IF tok = 0
         THEN /\ inflight' = base
              /\ emitted' = evs \cup {SaveEnd(t, "notoken")}
         ELSE /\ inflight' = Put(base, [Settled(t) EXCEPT !.pc = "upd_sent",
                                 !.tok = tok, !.reqs = t.reqs + 1])
              /\ emitted' = evs
  ELSE IF t.op = "sync" THEN
    \* processKey, lines 481-491
    /\ ls' = ls
    /\ emitted' = evs
    /\ IF tok = 0
         THEN inflight' = base
         ELSE inflight' = Put(base, [Settled(t) EXCEPT !.pc = "upd_sent",
                              !.tok = tok, !.reqs = 1])
  ELSE
    \* isAuthenticated, lines 260-263
    /\ ls' = ls
    /\ inflight' = base
    /\ emitted' = evs \cup {[ev |-> "isAuthenticated", val |-> (tok # 0),
                             lo |-> t.lo]}

\* ensureAccessToken, lines 140-150, called by t while _accessToken = cur
EnsureAccessToken(t, cur, base) ==
  IF cur # 0 THEN
    /\ Resume(t, cur, base, {})
    /\ UNCHANGED <<isRefreshing, subscribers>>
  ELSE IF JoinsRefresh(isRefreshing) THEN
    /\ subscribers' = Append(subscribers, Settled(t))
    /\ inflight' = base
    /\ ls' = ls
    /\ emitted' = {}
    /\ UNCHANGED isRefreshing
  ELSE
    /\ isRefreshing' = TRUE
    /\ inflight' = Put(base, [Settled(t) EXCEPT !.pc = "refresh_sent",
                              !.ck = cookie])
    /\ ls' = ls
    /\ emitted' = {}
    /\ UNCHANGED subscribers

\* syncPendingChanges, lines 470-510: the three processKey calls up to their
\* first fetch, over the cache l
SyncPendingChanges(l, base) ==
  LET d == DirtySeq(l)
      T(s) == [Task("sync", s) EXCEPT !.w = l[s]]
  IN IF d = <<>> THEN
       /\ inflight' = base
       /\ UNCHANGED <<isRefreshing, subscribers>>
     ELSE IF accessToken # 0 THEN
       /\ inflight' = base (+) SetToBag({[T(d[i]) EXCEPT !.pc = "upd_sent",
                          !.tok = accessToken, !.reqs = 1] : i \in 1..Len(d)})
       /\ UNCHANGED <<isRefreshing, subscribers>>
     ELSE IF JoinsRefresh(isRefreshing) THEN
       /\ subscribers' = subscribers \o [i \in 1..Len(d) |-> T(d[i])]
       /\ inflight' = base
       /\ UNCHANGED isRefreshing
     ELSE
       /\ isRefreshing' = TRUE
       /\ inflight' = Put(base, [T(d[1]) EXCEPT !.pc = "refresh_sent",
                                 !.ck = cookie])
       /\ subscribers' = subscribers \o [i \in 1..(Len(d) - 1) |-> T(d[i + 1])]

\* the record of the latest authenticated save, after t resumed with tok
SaveLog(t, tok) ==
  IF t.op = "save" /\ ~t.force /\ tok = 0
    THEN [lastSave EXCEPT ![t.slice] = 0]
    ELSE lastSave

\* a continuation resolved by the previous event runs before anything else
RunMicrotask ==
  /\ microtasks # <<>>
  /\ Resume(Head(microtasks).t, Head(microtasks).tok, inflight, {})
  /\ microtasks' = Tail(microtasks)
  /\ lastSave' = SaveLog(Head(microtasks).t, Head(microtasks).tok)
  /\ UNCHANGED <<accessToken, isRefreshing, subscribers, syncTimers,
                 cookie, kv, kvRefresh, expired, nextTok, nCalls, nOther,
                 loggedOut, notEngine>>

Idle == microtasks = <<>>

CanCall == Idle /\ nCalls < MaxCalls


\* ------------------------------------------------------------ client calls
\* saveCategories / setBackground / savePreferences -> _saveItem, lines
\* 287-293: the timestamp is taken, then the token is awaited
SaveCall(s) ==
  /\ CanCall
  /\ nCalls' = nCalls + 1
  /\ EnsureAccessToken([Task("save", s) EXCEPT
                          !.w = Wrapper(nCalls + 1, Now, TRUE)],
                       accessToken, inflight)
  /\ lastSave' = [lastSave EXCEPT ![s] = nCalls + 1]
  /\ UNCHANGED <<accessToken, microtasks, syncTimers, cookie, kv,
                 kvRefresh, expired, nextTok, nOther, loggedOut, notEngine>>

\* isAuthenticated, lines 260-263
AuthCall ==
  /\ CanCall
  /\ nCalls' = nCalls + 1
  /\ EnsureAccessToken([Task("auth", "none") EXCEPT !.lo = loggedOut],
                       accessToken, inflight)
  /\ UNCHANGED <<accessToken, microtasks, syncTimers, cookie, kv,
                 kvRefresh, expired, nextTok, nOther, loggedOut, lastSave,
                 notEngine>>

\* syncPendingChanges called by the 'online' listener (line 169) or the UI
SyncCall ==
  /\ CanCall
  /\ nCalls' = nCalls + 1
  /\ SyncPendingChanges(ls, inflight)
  /\ emitted' = {}
  /\ UNCHANGED <<ls, accessToken, microtasks, syncTimers, cookie, kv,
                 kvRefresh, expired, nextTok, nOther, loggedOut, lastSave,
                 notEngine>>

\* the timer login() sets, line 233
TimerSync ==
  /\ Idle
  /\ syncTimers > 0
  /\ syncTimers' = syncTimers - 1
  /\ SyncPendingChanges(ls, inflight)
  /\ emitted' = {}
  /\ UNCHANGED <<ls, accessToken, microtasks, cookie, kv, kvRefresh,
                 expired, nextTok, nCalls, nOther, loggedOut, lastSave,
                 notEngine>>

\* fetchAllData, lines 356-386: the cache is read and /api/bootstrap fetched
PullCall ==
  /\ CanCall
  /\ nCalls' = nCalls + 1
  /\ inflight' = Put(inflight, [Task("pull", "none") EXCEPT !.pc = "boot_sent"])
  /\ emitted' = {}
  /\ UNCHANGED <<ls, accessToken, isRefreshing, subscribers, microtasks,
                 syncTimers, cookie, kv, kvRefresh, expired, nextTok,
                 nOther, loggedOut, lastSave, notEngine>>

\* login, lines 221-227
LoginCall(good) ==
  /\ CanCall
  /\ nCalls' = nCalls + 1
  /\ inflight' = Put(inflight, [Task("login", "none") EXCEPT
                                 !.pc = "login_sent", !.good = good])
  /\ emitted' = {}
  /\ UNCHANGED <<ls, accessToken, isRefreshing, subscribers, microtasks,
                 syncTimers, cookie, kv, kvRefresh, expired, nextTok,
                 nOther, loggedOut, lastSave, notEngine>>

\* logout, lines 242-248
LogoutCall ==
  /\ CanCall
  /\ nCalls' = nCalls + 1
  /\ inflight' = Put(inflight, [Task("logout", "none") EXCEPT
                                 !.pc = "logout_sent", !.ck = cookie])
  /\ emitted' = {}
  /\ UNCHANGED <<ls, accessToken, isRefreshing, subscribers, microtasks,
                 syncTimers, cookie, kv, kvRefresh, expired, nextTok,
                 nOther, loggedOut, lastSave, notEngine>>

\* ------------------------------------------------------------- endpoints
\* update.ts lines 30-35: what KV holds after the put of a pushed wrapper
KvPut(type, w) ==
  IF type = "background" THEN Entry("raw", ObjectString, 0, FALSE) ELSE w

\* /api/update, update.ts lines 6-46.  lapsed: the expirationTtl of the
\* access:<token> key (auth.ts line 72) has run out by the time of the get;
\* keys are written with one TTL, so they run out in the order of issue.
\* fails: the try block throws
UpdateEndpoint(t, lapsed, fails) ==
  /\ Idle
  /\ t.pc = "upd_sent"
  /\ lapsed => AccessValid(t.tok)
  /\ fails => AccessValid(t.tok) /\ ~lapsed
  /\ LET st == IF lapsed \/ ~AccessValid(t.tok) THEN "401"
               ELSE IF fails THEN "500" ELSE "ok"
     IN /\ inflight' = Put(Take(inflight, t),
                           [t EXCEPT !.pc = "upd_resp", !.st = st])
        /\ kv' = IF st = "ok" THEN [kv EXCEPT ![t.slice] = KvPut(t.slice, t.w)]
                 ELSE kv
  /\ expired' = IF lapsed THEN t.tok ELSE expired
  /\ emitted' = {}
  /\ UNCHANGED <<ls, accessToken, isRefreshing, subscribers, microtasks,
                 syncTimers, cookie, kvRefresh, nextTok, nCalls, nOther,
                 loggedOut, lastSave, notEngine>>

\* /api/bootstrap, bootstrap.ts lines 15-37
BootstrapEndpoint(t) ==
  /\ Idle
  /\ t.pc = "boot_sent"
  /\ inflight' = Put(Take(inflight, t),
                     [t EXCEPT !.pc = "boot_resp", !.st = "ok", !.body = kv])
  /\ emitted' = {}
  /\ UNCHANGED <<ls, accessToken, isRefreshing, subscribers, microtasks,
                 syncTimers, cookie, kv, kvRefresh, expired, nextTok, nCalls,
                 nOther, loggedOut, lastSave, notEngine>>

\* /api/auth action 'refresh', auth.ts lines 81-107
RefreshEndpoint(t) ==
  /\ Idle
  /\ t.pc = "refresh_sent"
  /\ IF t.ck = 0 THEN
       /\ inflight' = Put(Take(inflight, t),
                          [t EXCEPT !.pc = "refresh_resp", !.st = "401"])
       /\ UNCHANGED <<kvRefresh, nextTok>>
     ELSE IF t.ck \notin kvRefresh THEN
       \* respondWithCookie(error, "", true): status 200, cookie cleared
       /\ inflight' = Put(Take(inflight, t),
                          [t EXCEPT !.pc = "refresh_resp", !.st = "ok",
                                    !.atok = 0, !.setck = 0])
       /\ UNCHANGED <<kvRefresh, nextTok>>
     ELSE
       /\ nextTok <= MaxTok
       /\ kvRefresh' = (kvRefresh \ {t.ck}) \cup {nextTok}
       /\ nextTok' = nextTok + 1
       /\ inflight' = Put(Take(inflight, t),
                          [t EXCEPT !.pc = "refresh_resp", !.st = "ok",
                                    !.atok = nextTok, !.setck = nextTok])
  /\ emitted' = {}
  /\ UNCHANGED <<ls, accessToken, isRefreshing, subscribers, microtasks,
                 syncTimers, cookie, kv, expired, nCalls, nOther, loggedOut,
                 lastSave, notEngine>>

\* /api/auth action 'login', auth.ts lines 63-78
LoginEndpoint(t) ==
  /\ Idle
  /\ t.pc = "login_sent"
  /\ IF ~t.good THEN
       /\ inflight' = Put(Take(inflight, t),
                          [t EXCEPT !.pc = "login_resp", !.st = "401"])
       /\ UNCHANGED <<kvRefresh, nextTok>>
     ELSE
       /\ nextTok <= MaxTok
       /\ kvRefresh' = kvRefresh \cup {nextTok}
       /\ nextTok' = nextTok + 1
       /\ inflight' = Put(Take(inflight, t),
                          [t EXCEPT !.pc = "login_resp", !.st = "ok",
                                    !.atok = nextTok, !.setck = nextTok])
  /\ emitted' = {}
  /\ UNCHANGED <<ls, accessToken, isRefreshing, subscribers, microtasks,
                 syncTimers, cookie, kv, expired, nCalls, nOther, loggedOut,
                 lastSave, notEngine>>

\* /api/auth action 'logout', auth.ts lines 110-116
LogoutEndpoint(t) ==
  /\ Idle
  /\ t.pc = "logout_sent"
  /\ kvRefresh' = kvRefresh \ {t.ck}
  /\ inflight' = Put(Take(inflight, t),
                     [t EXCEPT !.pc = "logout_resp", !.st = "ok", !.setck = 0])
  /\ emitted' = {}
  /\ UNCHANGED <<ls, accessToken, isRefreshing, subscribers, microtasks,
                 syncTimers, cookie, kv, expired, nextTok, nCalls, nOther,
                 loggedOut, lastSave, notEngine>>


\* ------------------------------------------------------ response handlers
\* ensureAccessToken, lines 153-159: what a queued caller is resolved with
SubscriberResult(newToken) == newToken

\* tryRefreshToken, lines 117-137, then for a refresh started by
\* ensureAccessToken its lines 150-161 and the continuation of its caller;
\* delivered = FALSE: the fetch rejects
RefreshResponse(t, delivered) ==
  /\ Idle
  /\ t.pc \in {"refresh_sent", "refresh_resp"}
  /\ delivered => t.pc = "refresh_resp"
  /\ LET newToken == IF delivered /\ t.st = "ok" THEN t.atok ELSE 0
         base == Take(inflight, t)
     IN /\ accessToken' = IF delivered THEN newToken ELSE accessToken
        /\ cookie' = IF delivered /\ t.setck # -1 THEN t.setck ELSE cookie
        /\ IF t.op = "init" THEN
             /\ inflight' = base
             /\ ls' = ls
             /\ emitted' = {}
             /\ UNCHANGED <<isRefreshing, subscribers, microtasks, lastSave>>
           ELSE
             /\ lastSave' = SaveLog(t, newToken)
             /\ isRefreshing' = FALSE
             /\ microtasks' = [i \in 1..Len(subscribers) |->
                                [t |-> subscribers[i],
                                 tok |-> SubscriberResult(newToken)]]
             /\ subscribers' = <<>>
             /\ Resume(t, newToken, base,
                       {[ev |-> "refreshed", tok |-> newToken,
                         n |-> Len(subscribers)]})
  /\ UNCHANGED <<syncTimers, kv, kvRefresh, expired, nextTok, nCalls,
                 nOther, loggedOut, notEngine>>

\* ResOk that takes every answered request for a success
ResAnswered(st) == st # "neterr"

\* trySync line 338 and processKey line 493: res.ok
ResOk(st) == st = "ok"

\* trySync, lines 332-349: the answer to the update request of a save
SaveResponse(t, delivered) ==
  /\ Idle
  /\ t.op = "save"
  /\ t.pc \in {"upd_sent", "upd_resp"}
  /\ delivered => t.pc = "upd_resp"
  /\ LET base == Take(inflight, t)
         st == IF delivered THEN t.st ELSE "neterr"
     IN IF Retries401(st, t.force) THEN
          \* trySync(true), lines 316-318
          /\ accessToken' = 0
          /\ EnsureAccessToken([t EXCEPT !.force = TRUE], 0, base)
        ELSE IF ResOk(st) THEN
          /\ ls' = [ls EXCEPT ![t.slice] = Acked(t.w, ls[t.slice])]
          /\ inflight' = base
          /\ emitted' = {SaveEnd(t, st)}
          /\ UNCHANGED <<accessToken, isRefreshing, subscribers>>
        ELSE
          \* lines 342-346: thrown or rejected, caught, notified
          /\ inflight' = base
          /\ emitted' = {SaveEnd(t, st),
                         [ev |-> "notify", type |-> "error", slice |-> t.slice]}
          /\ UNCHANGED <<ls, accessToken, isRefreshing, subscribers>>
  /\ UNCHANGED <<microtasks, syncTimers, cookie, kv, kvRefresh, expired,
                 nextTok, nCalls, nOther, loggedOut, lastSave, notEngine>>

\* processKey, lines 493-502: the answer to the update request of a sync pass
SyncResponse(t, delivered) ==
  /\ Idle
  /\ t.op = "sync"
  /\ t.pc \in {"upd_sent", "upd_resp"}
  /\ delivered => t.pc = "upd_resp"
  /\ LET st == IF delivered THEN t.st ELSE "neterr" IN
       /\ ls' = IF ResOk(st)
                  THEN [ls EXCEPT ![t.slice] = Acked(t.w, ls[t.slice])]
                  ELSE ls
       /\ accessToken' = IF st = "401" THEN 0 ELSE accessToken
       /\ emitted' = {[ev |-> "syncEnd", slice |-> t.slice, st |-> st,
                       reqs |-> t.reqs, w |-> t.w, was |-> ls[t.slice]]}
  /\ inflight' = Take(inflight, t)
  /\ UNCHANGED <<isRefreshing, subscribers, microtasks, syncTimers, cookie,
                 kv, kvRefresh, expired, nextTok, nCalls, nOther, loggedOut,
                 lastSave, notEngine>>

\* fetchAllData, lines 386-447: the bootstrap answer is reconciled with the
\* cache, the UI is told, and a sync pass is started
PullResponse(t, delivered) ==
  /\ Idle
  /\ t.pc \in {"boot_sent", "boot_resp"}
  /\ delivered => t.pc = "boot_resp"
  /\ IF delivered /\ t.st = "ok" THEN
       LET l2 == [s \in Slices |-> ProcessSync(ls[s], t.body[s])] IN
         /\ ls' = l2
         /\ emitted' =
              {[ev |-> "pulled", was |-> ls, body |-> t.body]} \cup
              IF \E s \in Slices : Adopts(ls[s], t.body[s])
                THEN {[ev |-> "cloudUpdate",
                       vals |-> [s \in Slices |-> SyncedVal(ls[s], t.body[s])]]}
                ELSE {}
         /\ SyncPendingChanges(l2, Take(inflight, t))
     ELSE
       /\ inflight' = Take(inflight, t)
       /\ emitted' = {}
       /\ UNCHANGED <<ls, isRefreshing, subscribers>>
  /\ UNCHANGED <<accessToken, microtasks, syncTimers, cookie, kv,
                 kvRefresh, expired, nextTok, nCalls, nOther, loggedOut,
                 lastSave, notEngine>>

\* login, lines 229-239
LoginResponse(t, delivered) ==
  /\ Idle
  /\ t.pc \in {"login_sent", "login_resp"}
  /\ delivered => t.pc = "login_resp"
  /\ inflight' = Take(inflight, t)
  /\ IF delivered /\ t.st = "ok" THEN
       /\ accessToken' = t.atok
       /\ cookie' = t.setck
       /\ syncTimers' = syncTimers + 1
       /\ loggedOut' = FALSE
     ELSE UNCHANGED <<accessToken, cookie, syncTimers, loggedOut>>
  /\ emitted' = {[ev |-> "login", val |-> (delivered /\ t.st = "ok")]}
  /\ UNCHANGED <<ls, isRefreshing, subscribers, microtasks, kv,
                 kvRefresh, expired, nextTok, nCalls, nOther, lastSave,
                 notEngine>>

\* logout, lines 249-253
LogoutResponse(t, delivered) ==
  /\ Idle
  /\ t.pc \in {"logout_sent", "logout_resp"}
  /\ delivered => t.pc = "logout_resp"
  /\ inflight' = Take(inflight, t)
  /\ cookie' = IF delivered THEN t.setck ELSE cookie
  /\ accessToken' = 0
  /\ loggedOut' = TRUE
  /\ emitted' = {[ev |-> "logout", delivered |-> delivered]}
  /\ UNCHANGED <<ls, isRefreshing, subscribers, microtasks, syncTimers,
                 kv, kvRefresh, expired, nextTok, nCalls, nOther, lastSave,
                 notEngine>>

\* ------------------------------------------------------------ environment
\* another device running this engine pushes its snapshot of slice s
OtherDevicePush(s) ==
  /\ Idle
  /\ nOther < MaxOther
  /\ nOther' = nOther + 1
  /\ kv' = [kv EXCEPT ![s] =
                KvPut(s, Wrapper(MaxCalls + nOther + 1, Now, TRUE))]
  /\ emitted' = {}
  /\ UNCHANGED <<ls, accessToken, isRefreshing, subscribers, microtasks,
                 inflight, syncTimers, cookie, kvRefresh, expired, nextTok,
                 nCalls, loggedOut, lastSave, notEngine>>

Next ==
  \/ RunMicrotask
  \/ \E s \in Slices : SaveCall(s)
  \/ AuthCall
  \/ SyncCall
  \/ TimerSync
  \/ PullCall
  \/ \E good \in BOOLEAN : LoginCall(good)
  \/ LogoutCall
  \/ \E t \in InFlight, lapsed, fails \in BOOLEAN :
       UpdateEndpoint(t, lapsed, fails)
  \/ \E t \in InFlight : BootstrapEndpoint(t)
  \/ \E t \in InFlight : RefreshEndpoint(t)
  \/ \E t \in InFlight : LoginEndpoint(t)
  \/ \E t \in InFlight : LogoutEndpoint(t)
  \/ \E t \in InFlight, delivered \in BOOLEAN : RefreshResponse(t, delivered)
  \/ \E t \in InFlight, delivered \in BOOLEAN : SaveResponse(t, delivered)
  \/ \E t \in InFlight, delivered \in BOOLEAN : SyncResponse(t, delivered)
  \/ \E t \in InFlight, delivered \in BOOLEAN : PullResponse(t, delivered)
  \/ \E t \in InFlight, delivered \in BOOLEAN : LoginResponse(t, delivered)
  \/ \E t \in InFlight, delivered \in BOOLEAN : LogoutResponse(t, delivered)
  \/ \E s \in Slices : OtherDevicePush(s)

Spec == Init /\ [][Next]_vars


\* =================================================================== claims
Pulled == {e \in emitted : e.ev = "pulled"}

SaveEnds == {e \in emitted : e.ev = "saveEnd"}

Acks == {e \in emitted : e.ev \in {"saveEnd", "syncEnd"} /\ e.st = "ok"}

\* every save the engine still has to finish
Saves ==
  {t \in InFlight : t.op = "save"}
    \cup {subscribers[i] : i \in {j \in 1..Len(subscribers) :
                                    subscribers[j].op = "save"}}
    \cup {microtasks[i].t : i \in {j \in 1..Len(microtasks) :
                                     microtasks[j].t.op = "save"}}

\* the refresh requests ensureAccessToken has in flight
RefreshLeaders ==
  {t \in InFlight : t.op # "init" /\ t.pc \in {"refresh_sent", "refresh_resp"}}

\* C1: a slice that is dirty in the cache when the bootstrap answer is
\* reconciled keeps its data, updatedAt and dirty flag, whatever the answer
\* carries for it.
C1_DirtyWinsPull ==
  \A e \in Pulled : \A s \in Slices :
    IsDirty(e.was[s]) => ls[s] = e.was[s]

\* a pull met a dirty slice for which the remote held a newer snapshot
C1_Witness ==
  \E e \in Pulled : \E s \in Slices :
    /\ IsDirty(e.was[s])
    /\ e.body[s].kind = "wrapper"
    /\ e.body[s].updatedAt > e.was[s].updatedAt
    /\ e.body[s].data # e.was[s].data

\* C2: the acknowledgement of a push (to a save or to a sync pass) leaves a
\* newer dirty write of the same slice in the cache as it is.
C2_AckKeepsNewerWrite ==
  \A e \in Acks :
    (IsDirty(e.was) /\ e.was.updatedAt > e.w.updatedAt) => ls[e.slice] = e.was

\* C3: a save whose push fails (fetch rejected, 5xx, or a second 401) writes
\* nothing to the cache and emits an error notification.
C3_FailureKeepsSnapshot ==
  \A e \in SaveEnds :
    (e.st \in {"neterr", "500"} \/ (e.st = "401" /\ e.force)) =>
      /\ ls[e.slice] = e.was
      /\ [ev |-> "notify", type |-> "error", slice |-> e.slice] \in emitted

\* a save ended on a second 401 while its own dirty snapshot was cached
C3_Witness ==
  \E e \in SaveEnds :
    /\ e.st = "401"
    /\ e.force
    /\ e.was = e.w
    /\ IsDirty(ls[e.slice])

\* C4: an isAuthenticated() call made after logout() completed (and before
\* any later login succeeds) reports no token.
C4_NoTokenAfterLogout ==
  \A e \in emitted :
    (e.ev = "isAuthenticated" /\ e.lo /\ loggedOut) => ~e.val

\* C5: ensureAccessToken has at most one refresh request in flight; callers
\* are queued only behind that request; and when it completes every queued
\* caller is resolved with its outcome.
C5_RefreshCoalescing ==
  /\ Cardinality(RefreshLeaders) <= 1
  /\ \A t \in RefreshLeaders : CopiesIn(t, inflight) = 1
  /\ isRefreshing <=> RefreshLeaders # {}
  /\ subscribers # <<>> => RefreshLeaders # {}
  /\ \A e \in emitted :
       e.ev = "refreshed" =>
         /\ Len(microtasks) = e.n
         /\ \A i \in 1..Len(microtasks) : microtasks[i].tok = e.tok

\* a refresh that had a caller queued behind it has completed
C5_Witness == \E e \in emitted : e.ev = "refreshed" /\ e.n >= 1

\* C6: a save sends at most two update requests; it ends on a 401 only
\* after the one refresh-and-retry, and then (or when the refresh gives no
\* token) sends nothing more and leaves the cache entry as it is.
C6_OneRetry ==
  /\ \A t \in Saves :
       /\ t.reqs <= 2
       /\ ~t.force => t.reqs <= 1
  /\ \A e \in SaveEnds :
       /\ e.reqs <= 2
       /\ e.st = "401" => e.force /\ e.reqs = 2 /\ ls[e.slice] = e.was
       /\ e.st = "notoken" => e.force /\ e.reqs = 1 /\ ls[e.slice] = e.was
       /\ e.st \in {"401", "notoken"} =>
            \A t \in Saves : t.w # e.w

\* a save ended on the 401 answer to its retry, its snapshot still dirty
C6_Witness ==
  \E e \in SaveEnds :
    e.st = "401" /\ e.reqs = 2 /\ e.was = e.w /\ IsDirty(ls[e.slice])

\* C7: a clean slice whose remote snapshot is newer holds the remote data
\* after the pull and onCloudUpdate is called with it; a slice whose remote
\* snapshot is not newer is unchanged.
C7_CleanPullFreshness ==
  \A e \in Pulled : \A s \in Slices :
    LET loc == CurrentWrapper(e.was[s])
        rem == CloudWrapper(e.body[s])
    IN /\ (~loc.dirty /\ rem.updatedAt > loc.updatedAt) =>
            /\ ls[s].kind = "wrapper"
            /\ ls[s].data = rem.data
            /\ ls[s].updatedAt = rem.updatedAt
            /\ \E u \in emitted :
                 u.ev = "cloudUpdate" /\ u.vals[s] = rem.data
       /\ rem.updatedAt <= loc.updatedAt => ls[s] = e.was[s]

\* a pull replaced a clean cached snapshot by a newer remote one
C7_Witness ==
  \E e \in Pulled : \E s \in Slices :
    /\ e.was[s].kind = "wrapper"
    /\ ~e.was[s].dirty
    /\ e.body[s].kind = "wrapper"
    /\ e.body[s].updatedAt > e.was[s].updatedAt
    /\ ls[s].data = e.body[s].data

\* C8: a slice for which the pull adopted the remote value is clean
\* afterwards.
C8_AdoptedIsClean ==
  \A e \in Pulled : \A s \in Slices :
    LET loc == CurrentWrapper(e.was[s])
        rem == CloudWrapper(e.body[s])
    IN (~loc.dirty /\ rem.updatedAt > loc.updatedAt) => ~ls[s].dirty

\* C9 as claimed: a save made without a token is stored dirty.
C9_GuestSaveDirty ==
  \A e \in emitted :
    (e.ev = "stored" /\ e.tok = 0) => IsDirty(ls[e.slice])

\* C9 as amended: a save made without a token is stored with its value and
\* timestamp and dirty = false, and no update request is sent for it.
C9_GuestSaveClean ==
  \A e \in emitted :
    (e.ev = "stored" /\ e.tok = 0) =>
      /\ ls[e.slice] = Wrapper(e.w.data, e.w.updatedAt, FALSE)
      /\ \A t \in Saves : t.w.data # e.w.data

\* a save was stored while no token could be obtained
C9_Witness == \E e \in emitted : e.ev = "stored" /\ e.tok = 0

\* C10: a save that has a request in flight (token refresh or update) has
\* already written its value to the cache.
C10_StoredBeforeRequest ==
  \A t \in InFlight :
    (t.op = "save" /\ t.reqs = 0) => ls[t.slice].data = t.w.data

\* no save, push or refresh is in flight and no continuation is waiting
Quiescent ==
  /\ microtasks = <<>>
  /\ subscribers = <<>>
  /\ ~isRefreshing
  /\ \A t \in InFlight : t.op \in {"pull", "login", "logout"}

\* C11: in a quiescent state, a slice that was saved and whose cached
\* snapshot is clean and holds a value of this client holds the value of
\* the latest save call to that slice.
C11_CleanIsLatestSave ==
  \A s \in Slices :
    (/\ Quiescent
     /\ lastSave[s] # 0
     /\ ls[s].kind = "wrapper"
     /\ ~ls[s].dirty
     /\ ls[s].data \in 1..MaxCalls) => ls[s].data = lastSave[s]

\* C20: when a refresh started by ensureAccessToken ends without a token, no
\* access token is held, every queued caller is resolved with an absent
\* token, the subscriber list is empty and the refreshing flag is false.
C20_FailedRefreshClears ==
  \A e \in emitted :
    (e.ev = "refreshed" /\ e.tok = 0) =>
      /\ accessToken = 0
      /\ \A i \in 1..Len(microtasks) : microtasks[i].tok = 0
      /\ subscribers = <<>>
      /\ ~isRefreshing

\* ======================================================================
\* The dirty-flag storage service, src/src/services/storage.ts
\* ======================================================================
\* the timestamp+dirty service at rest, while another service is looked at
EngineOff ==
  /\ ls = [s \in Slices |-> NoEntry]
  /\ accessToken = 0
  /\ isRefreshing = FALSE
  /\ subscribers = <<>>
  /\ microtasks = <<>>
  /\ inflight = EmptyBag
  /\ syncTimers = 0
  /\ cookie = 0
  /\ kv = [s \in Slices |-> Entry("null", 0, 0, FALSE)]
  /\ kvRefresh = {}
  /\ expired = 0
  /\ nextTok = 1
  /\ nCalls = 0
  /\ nOther = 0
  /\ loggedOut = FALSE
  /\ lastSave = [s \in Slices |-> 0]
  /\ emitted = {}

DebounceTime(type) == IF type = "prefs" THEN PrefsWindow ELSE SaveWindow

\* a suspended call of the service; view is the object `dirty` of a sync
\* pass (line 530) once a later _loadDirtyState has replaced _dirty
DfTask(op) ==
  [op |-> op, pc |-> "start", slice |-> "none", data |-> 0, force |-> FALSE,
   st |-> "none", body |-> [s \in DfSlices |-> 0], rest |-> <<>>,
   live |-> TRUE, view |-> [s \in DfSlices |-> FALSE]]

DfTasks == BagToSet(dfInflight)

\* Object.values(storageService._dirty).some(v => v), lines 241, 479, 577
SomeDirty(d) == \E s \in DfSlices : d[s]

\* module load on a device with nothing cached and nothing left dirty:
\* init() (lines 152-181) has read the dirty map, _lastSaveTime is 0; a
\* token is stored or not
DfInit ==
  /\ dfLocal = [s \in DfSlices |-> 0]
  /\ dfDirty = [s \in DfSlices |-> FALSE]
  /\ dfPendingSync = FALSE
  /\ dfOnline = TRUE
  /\ dfToken \in BOOLEAN
  /\ dfElapsed = SaveWindow
  /\ dfHeld = [s \in DfSlices |-> FALSE]
  /\ dfRemote = [s \in DfSlices |-> 0]
  /\ dfInflight = EmptyBag
  /\ dfCalls = 0
  /\ dfEmitted = {}
  /\ EngineOff
  /\ TdOff
  /\ AuOff
  /\ SeOff
  /\ RfOff
  /\ PfOff
  /\ BcOff

DfCanCall == dfCalls < DfMaxCalls

\* _saveItem, lines 429-466, up to its fetch
DfSaveItem(s, data, force, t, base) ==
  /\ dfLocal' = [dfLocal EXCEPT ![s] = data]
  /\ dfDirty' = [dfDirty EXCEPT ![s] = TRUE]
  /\ IF ~dfToken \/ (~force /\ ~dfOnline) THEN
       \* lines 439-449
       /\ dfPendingSync' = TRUE
       /\ dfHeld' = [dfHeld EXCEPT ![s] = FALSE]
       /\ dfInflight' = base
       /\ dfEmitted' = {}
       /\ UNCHANGED dfElapsed
     ELSE IF ~force /\ dfElapsed < DebounceTime(s) THEN
       \* line 454
       /\ dfHeld' = [dfHeld EXCEPT ![s] = TRUE]
       /\ dfInflight' = base
       /\ dfEmitted' = {[ev |-> "held", slice |-> s, data |-> data]}
       /\ UNCHANGED <<dfPendingSync, dfElapsed>>
     ELSE
       \* lines 455-466
       /\ dfElapsed' = 0
       /\ dfHeld' = [dfHeld EXCEPT ![s] = FALSE]
       /\ dfInflight' = base (+) SetToBag({[t EXCEPT !.pc = "upd_sent",
                                  !.slice = s, !.data = data,
                                  !.force = force, !.st = "none"]})
       /\ dfEmitted' = {[ev |-> "sent", slice |-> s, data |-> data]}
       /\ UNCHANGED dfPendingSync

\* saveCategories / savePreferences, lines 503-508
DfSaveCall(s, force) ==
  /\ DfCanCall
  /\ force => s = "prefs"
  /\ dfCalls' = dfCalls + 1
  /\ DfSaveItem(s, dfCalls + 1, force, DfTask("save"), dfInflight)
  /\ UNCHANGED <<dfOnline, dfToken, dfRemote, notDf>>

\* time passes: one more debounce window since _lastSaveTime
DfTick ==
  /\ dfElapsed < SaveWindow
  /\ dfElapsed' = dfElapsed + 1
  /\ dfEmitted' = {}
  /\ UNCHANGED <<dfLocal, dfDirty, dfPendingSync, dfOnline, dfToken, dfHeld,
                 dfRemote, dfInflight, dfCalls, notDf>>

\* /api/update answering the request of t with status st
DfUpdateEndpoint(t, st) ==
  /\ t.pc = "upd_sent"
  /\ dfRemote' = IF st = "ok" THEN [dfRemote EXCEPT ![t.slice] = t.data]
                 ELSE dfRemote
  /\ dfInflight' = (dfInflight (-) SetToBag({t}))
                     (+) SetToBag({[t EXCEPT !.pc = "upd_resp", !.st = st]})
  /\ dfEmitted' = {}
  /\ UNCHANGED <<dfLocal, dfDirty, dfPendingSync, dfOnline, dfToken,
                 dfElapsed, dfHeld, dfCalls, notDf>>

\* /api/bootstrap answering the request of t
DfBootstrapEndpoint(t, ok) ==
  /\ t.pc = "boot_sent"
  /\ dfInflight' = (dfInflight (-) SetToBag({t}))
                     (+) SetToBag({[t EXCEPT !.pc = "boot_resp",
                                      !.st = IF ok THEN "ok" ELSE "500",
                                      !.body = dfRemote]})
  /\ dfEmitted' = {}
  /\ UNCHANGED <<dfLocal, dfDirty, dfPendingSync, dfOnline, dfToken,
                 dfElapsed, dfHeld, dfRemote, dfCalls, notDf>>

\* another device writes slice s of the remote store
DfOtherPush(s) ==
  /\ DfCanCall
  /\ dfCalls' = dfCalls + 1
  /\ dfRemote' = [dfRemote EXCEPT ![s] = DfMaxCalls + dfCalls + 1]
  /\ dfEmitted' = {}
  /\ UNCHANGED <<dfLocal, dfDirty, dfPendingSync, dfOnline, dfToken,
                 dfElapsed, dfHeld, dfInflight, notDf>>

\* syncPendingChanges, lines 532-548: the forced saves of the slices the
\* pass sees dirty, from the slices in rest on, up to the next fetch
DfSyncStep(t, rest, dirty0, pend0, tok0, base, evs) ==
  LET seen == IF t.live THEN dirty0 ELSE t.view
      todo == SelectSeq(rest, LAMBDA s : seen[s])
  IN IF todo # <<>> /\ tok0 THEN
       \* _saveItem(key, data, type, true), lines 429-466
       LET s == Head(todo)
           k == CHOOSE i \in 1..Len(rest) : rest[i] = s
       IN /\ dfDirty' = [dirty0 EXCEPT ![s] = TRUE]
          /\ dfPendingSync' = pend0
          /\ dfElapsed' = 0
          /\ dfHeld' = [dfHeld EXCEPT ![s] = FALSE]
          /\ dfInflight' = base (+) SetToBag({[t EXCEPT !.pc = "upd_sent",
                                     !.slice = s, !.data = dfLocal[s],
                                     !.force = TRUE, !.st = "none",
                                     !.rest = SubSeq(rest, k + 1, Len(rest))]})
          /\ dfEmitted' = evs \cup {[ev |-> "sent", slice |-> s,
                                     data |-> dfLocal[s]]}
     ELSE
       \* every _saveItem left returns at line 442; then line 548
       /\ dfDirty' = [s \in DfSlices |->
                        dirty0[s] \/ \E i \in 1..Len(todo) : todo[i] = s]
       /\ dfPendingSync' = (pend0 \/ todo # <<>>)
       /\ dfInflight' = base (+) SetToBag({[t EXCEPT !.pc = "boot_sent",
                                  !.slice = "none", !.data = 0,
                                  !.st = "none", !.rest = <<>>]})
       /\ dfEmitted' = evs
       /\ UNCHANGED <<dfElapsed, dfHeld>>

\* _loadDirtyState, lines 229-244: _dirty becomes a new object, and a pass
\* that holds the old one (line 530) no longer sees later changes
Frozen(bag) ==
  LET F(t) == IF t.op = "sync" /\ t.live
                THEN [t EXCEPT !.live = FALSE, !.view = dfDirty] ELSE t
  IN BagOfAll(F, bag)

\* syncPendingChanges, lines 509-531
DfSyncPendingChanges(force) ==
  IF ~dfOnline /\ ~force THEN
    /\ dfPendingSync' = TRUE
    /\ dfEmitted' = {[ev |-> "notify", type |-> "info"]}
    /\ UNCHANGED <<dfDirty, dfElapsed, dfHeld, dfInflight>>
  ELSE IF ~dfToken THEN
    /\ dfEmitted' = {[ev |-> "notify", type |-> "error"]}
    /\ UNCHANGED <<dfDirty, dfPendingSync, dfElapsed, dfHeld, dfInflight>>
  ELSE
    DfSyncStep(DfTask("sync"), DfOrder, dfDirty, SomeDirty(dfDirty), dfToken,
               Frozen(dfInflight), {})

\* syncPendingChanges called by the UI
DfSyncCall(force) ==
  /\ DfCanCall
  /\ dfCalls' = dfCalls + 1
  /\ DfSyncPendingChanges(force)
  /\ UNCHANGED <<dfLocal, dfOnline, dfToken, dfRemote, notDf>>

\* updateOnlineStatus, lines 249-260, on an 'online' or 'offline' event;
\* the sync pass it starts finds _isOnline already set
DfOnlineEvent(online) ==
  /\ DfCanCall
  /\ dfCalls' = dfCalls + 1
  /\ dfOnline' = online
  /\ IF ~dfOnline /\ online /\ dfPendingSync
       THEN IF ~dfToken
              THEN /\ dfEmitted' = {[ev |-> "notify", type |-> "error"]}
                   /\ UNCHANGED <<dfDirty, dfPendingSync, dfElapsed, dfHeld,
                                  dfInflight>>
              ELSE DfSyncStep(DfTask("sync"), DfOrder, dfDirty,
                              SomeDirty(dfDirty), dfToken,
                              Frozen(dfInflight), {})
       ELSE /\ dfEmitted' = {}
            /\ UNCHANGED <<dfDirty, dfPendingSync, dfElapsed, dfHeld,
                           dfInflight>>
  /\ UNCHANGED <<dfLocal, dfToken, dfRemote, notDf>>

\* _saveItem, lines 468-500: the answer to its update request; for a save
\* of a sync pass the pass goes on (lines 536-548)
DfSaveResponse(t, delivered) ==
  /\ t.pc \in {"upd_sent", "upd_resp"}
  /\ delivered => t.pc = "upd_resp"
  /\ LET st == IF delivered THEN t.st ELSE "neterr"
         base == dfInflight (-) SetToBag({t})
         dirty1 == IF st = "ok" THEN [dfDirty EXCEPT ![t.slice] = FALSE]
                   ELSE dfDirty
         pend1 == IF st = "ok" THEN SomeDirty(dirty1) ELSE TRUE
         tok1 == IF st = "401" THEN FALSE ELSE dfToken
         evs == {[ev |-> "saveEnd", slice |-> t.slice, data |-> t.data,
                  st |-> st, force |-> t.force]}
                  \cup IF st \in {"500", "neterr"}
                         THEN {[ev |-> "notify", type |-> "error"]} ELSE {}
     IN /\ dfToken' = tok1
        /\ IF t.op = "sync" THEN
             DfSyncStep(t, t.rest, dirty1, pend1, tok1, base, evs)
           ELSE
             /\ dfDirty' = dirty1
             /\ dfPendingSync' = pend1
             /\ dfInflight' = base
             /\ dfEmitted' = evs
             /\ UNCHANGED <<dfElapsed, dfHeld>>
  /\ UNCHANGED <<dfLocal, dfOnline, dfRemote, dfCalls, notDf>>

\* syncPendingChanges, lines 548-589: the answer to its bootstrap request
DfSyncPull(t, delivered) ==
  /\ t.op = "sync"
  /\ t.pc \in {"boot_sent", "boot_resp"}
  /\ delivered => t.pc = "boot_resp"
  /\ dfInflight' = dfInflight (-) SetToBag({t})
  /\ IF delivered /\ t.st = "ok" THEN
       /\ dfLocal' = [s \in DfSlices |->
                        IF ~dfDirty[s] /\ t.body[s] # 0 THEN t.body[s]
                        ELSE dfLocal[s]]
       /\ dfHeld' = [s \in DfSlices |->
                       dfHeld[s] /\ ~(~dfDirty[s] /\ t.body[s] # 0)]
       /\ dfPendingSync' = SomeDirty(dfDirty)
       /\ dfEmitted' = {[ev |-> "syncPulled", was |-> dfLocal,
                         body |-> t.body]}
     ELSE
       /\ dfPendingSync' = TRUE
       /\ dfEmitted' = {[ev |-> "notify", type |-> "error"]}
       /\ UNCHANGED <<dfLocal, dfHeld>>
  /\ UNCHANGED <<dfDirty, dfOnline, dfToken, dfElapsed, dfRemote, dfCalls,
                 notDf>>

\* fetchAllData, lines 335-338
DfPullCall ==
  /\ DfCanCall
  /\ dfCalls' = dfCalls + 1
  /\ dfInflight' = dfInflight (+) SetToBag({[DfTask("pull") EXCEPT
                                              !.pc = "boot_sent"]})
  /\ dfEmitted' = {}
  /\ UNCHANGED <<dfLocal, dfDirty, dfPendingSync, dfOnline, dfToken,
                 dfElapsed, dfHeld, dfRemote, notDf>>

\* fetchAllData, lines 344-376: the value chosen for a slice whose cached
\* value is loc, dirty flag is dirty and bootstrap value is cloud
FinalValue(loc, dirty, cloud) ==
  LET first == IF cloud # 0 THEN cloud
               ELSE IF loc # 0 THEN loc ELSE DfDefault
  IN IF ~dirty /\ cloud # 0 THEN cloud ELSE first

\* fetchAllData, lines 339-426: the answer to its bootstrap request
DfPullResponse(t, delivered) ==
  /\ t.op = "pull"
  /\ t.pc \in {"boot_sent", "boot_resp"}
  /\ delivered => t.pc = "boot_resp"
  /\ LET cloud == IF delivered /\ t.st = "ok" THEN t.body
                  ELSE [s \in DfSlices |-> 0]
         final == [s \in DfSlices |->
                     FinalValue(dfLocal[s], dfDirty[s], cloud[s])]
     IN /\ dfLocal' = final
        /\ dfHeld' = [s \in DfSlices |->
                        dfHeld[s] /\ final[s] = dfLocal[s]]
        /\ dfEmitted' = {[ev |-> "pulled", was |-> dfLocal,
                          dirty |-> dfDirty, cloud |-> cloud,
                          ret |-> final]}
  /\ dfInflight' = dfInflight (-) SetToBag({t})
  /\ UNCHANGED <<dfDirty, dfPendingSync, dfOnline, dfToken, dfElapsed,
                 dfRemote, dfCalls, notDf>>

\* login, lines 274-281, on a 2xx answer
DfLogin ==
  /\ DfCanCall
  /\ dfCalls' = dfCalls + 1
  /\ dfToken' = TRUE
  /\ dfEmitted' = {[ev |-> "login", dirty |-> dfDirty]}
  /\ UNCHANGED <<dfLocal, dfDirty, dfPendingSync, dfOnline, dfElapsed,
                 dfHeld, dfRemote, dfInflight, notDf>>

\* logout, lines 296-303
DfLogout ==
  /\ DfCanCall
  /\ dfCalls' = dfCalls + 1
  /\ dfToken' = FALSE
  /\ dfEmitted' = {}
  /\ UNCHANGED <<dfLocal, dfDirty, dfPendingSync, dfOnline, dfElapsed,
                 dfHeld, dfRemote, dfInflight, notDf>>

DfNext ==
  \/ \E s \in DfSlices, force \in BOOLEAN : DfSaveCall(s, force)
  \/ DfTick
  \/ \E t \in DfTasks, st \in {"ok", "401", "500"} : DfUpdateEndpoint(t, st)
  \/ \E t \in DfTasks, ok \in BOOLEAN : DfBootstrapEndpoint(t, ok)
  \/ \E s \in DfSlices : DfOtherPush(s)
  \/ \E force \in BOOLEAN : DfSyncCall(force)
  \/ \E online \in BOOLEAN : DfOnlineEvent(online)
  \/ \E t \in DfTasks, delivered \in BOOLEAN : DfSaveResponse(t, delivered)
  \/ \E t \in DfTasks, delivered \in BOOLEAN : DfSyncPull(t, delivered)
  \/ DfPullCall
  \/ \E t \in DfTasks, delivered \in BOOLEAN : DfPullResponse(t, delivered)
  \/ DfLogin
  \/ DfLogout

SpecDF == DfInit /\ [][DfNext]_vars

\* C12: a slice that is flagged dirty when the bootstrap answer of
\* fetchAllData is handled is returned with its cached value, and the cached
\* value is left as it is, whatever the answer holds for the slice.
C12_DirtyKeepsLocal ==
  \A e \in dfEmitted :
    e.ev = "pulled" =>
      \A s \in DfSlices :
        e.dirty[s] => e.ret[s] = e.was[s] /\ dfLocal[s] = e.was[s]

\* C13: a slice whose latest save was held back by the debounce test, so
\* that the remote was sent an earlier value at most, is not marked clean.
C13_HeldBurstStaysDirty ==
  \A s \in DfSlices : dfHeld[s] => dfDirty[s]

\* ======================================================================
\* The timer-debounced storage service, src/unnamed/part_004
\* ======================================================================
\* module load, lines 5-8 and init() (lines 49-55): a token is stored or
\* not; when its expiry has passed init() has called tryRefreshToken
TdInit ==
  /\ tdLocal = [s \in TdSlices |-> 0]
  /\ tdTimers = EmptyBag
  /\ tdTimer = NoTimer
  /\ \E tok, refr \in BOOLEAN :
       /\ refr => tok
       /\ tdToken = tok
       /\ tdRefreshing = refr
       /\ tdInflight = IF refr
                         THEN SetToBag({[op |-> "init", pc |-> "refresh_sent",
                                         slice |-> "none", data |-> 0,
                                         st |-> "none"]})
                         ELSE EmptyBag
       /\ tdBurst = [NoBurst EXCEPT !.pre = tok /\ ~refr]
  /\ tdSubscribers = <<>>
  /\ tdRemote = [s \in TdSlices |-> 0]
  /\ tdCalls = 0
  /\ tdDenied = 0
  /\ tdEmitted = {}
  /\ EngineOff
  /\ DfOff
  /\ AuOff
  /\ SeOff
  /\ RfOff
  /\ PfOff
  /\ BcOff

TdTasks == BagToSet(tdInflight)

\* ClearTimeout that cancels nothing
KeepTimeout(timers, cur) == timers

\* clearTimeout(_saveDebounceTimer), line 162
ClearTimeout(timers, cur) ==
  IF cur # NoTimer /\ BagIn(cur, timers)
    THEN timers (-) SetToBag({cur}) ELSE timers

\* _saveItem, lines 160-164 and 209, run for each of the saves in order:
\* the cache is written, the pending timer is cleared and a new one is set
RECURSIVE SaveItems(_, _, _, _)
SaveItems(saves, loc, timers, cur) ==
  IF saves = <<>> THEN [loc |-> loc, timers |-> timers, cur |-> cur]
  ELSE LET sv == Head(saves)
           tm == [slice |-> sv.slice, data |-> sv.data]
       IN SaveItems(Tail(saves), [loc EXCEPT ![sv.slice] = sv.data],
                    ClearTimeout(timers, cur) (+) SetToBag({tm}), tm)

\* the saves made since the timer last ran out, after one more
Burst(b, s, data, pending) ==
  IF pending
    THEN [b EXCEPT !.k = b.k + 1, !.last = data,
                   !.pre = b.pre /\ s = b.slice]
    ELSE [slice |-> s, k |-> 1, last |-> data, sent |-> <<>>,
          pre |-> tdToken /\ ~tdRefreshing]

\* saveCategories / setBackground / savePreferences, lines 213-218
TdSaveCall(s) ==
  /\ tdCalls < TdMaxCalls
  /\ tdCalls' = tdCalls + 1
  /\ LET r == SaveItems(<<[slice |-> s, data |-> tdCalls + 1]>>, tdLocal,
                        tdTimers, tdTimer)
     IN /\ tdLocal' = r.loc
        /\ tdTimers' = r.timers
        /\ tdTimer' = r.cur
  /\ tdBurst' = Burst(tdBurst, s, tdCalls + 1, tdTimers # EmptyBag)
  /\ tdEmitted' = {}
  /\ UNCHANGED <<tdToken, tdRefreshing, tdSubscribers, tdInflight, tdRemote,
                 tdDenied, notTd>>

\* the callback of the debounce timer, lines 164-186, up to its fetch
TdTimerFire(tm) ==
  /\ BagIn(tm, tdTimers)
  /\ tdTimers' = tdTimers (-) SetToBag({tm})
  /\ IF tdRefreshing THEN
       /\ tdSubscribers' = Append(tdSubscribers,
                                  [kind |-> "save", slice |-> tm.slice,
                                   data |-> tm.data])
       /\ tdBurst' = [tdBurst EXCEPT !.pre = FALSE]
       /\ tdEmitted' = {}
       /\ UNCHANGED tdInflight
     ELSE IF ~tdToken THEN
       /\ tdBurst' = [tdBurst EXCEPT !.pre = FALSE]
       /\ tdEmitted' = {[ev |-> "notify", type |-> "info"]}
       /\ UNCHANGED <<tdSubscribers, tdInflight>>
     ELSE
       /\ tdInflight' = tdInflight (+)
            SetToBag({[op |-> "save", pc |-> "upd_sent", slice |-> tm.slice,
                       data |-> tm.data, st |-> "none"]})
       /\ tdBurst' = [tdBurst EXCEPT !.sent = Append(@, tm.data)]
       /\ tdEmitted' = {[ev |-> "sent", slice |-> tm.slice,
                         data |-> tm.data]}
       /\ UNCHANGED tdSubscribers
  /\ UNCHANGED <<tdLocal, tdTimer, tdToken, tdRefreshing, tdRemote, tdCalls,
                 tdDenied, notTd>>

\* /api/update answering the request of t with status st
TdUpdateEndpoint(t, st) ==
  /\ t.pc = "upd_sent"
  /\ st # "ok" => tdDenied < TdMaxDenied
  /\ tdDenied' = IF st = "ok" THEN tdDenied ELSE tdDenied + 1
  /\ tdRemote' = IF st = "ok" THEN [tdRemote EXCEPT ![t.slice] = t.data]
                 ELSE tdRemote
  /\ tdInflight' = (tdInflight (-) SetToBag({t}))
                     (+) SetToBag({[t EXCEPT !.pc = "upd_resp", !.st = st]})
  /\ tdEmitted' = {}
  /\ UNCHANGED <<tdLocal, tdTimers, tdTimer, tdToken, tdRefreshing,
                 tdSubscribers, tdCalls, tdBurst, notTd>>

\* the callback of the debounce timer, lines 188-208: the answer to the
\* update request
TdSaveResponse(t, delivered) ==
  /\ t.op = "save"
  /\ t.pc \in {"upd_sent", "upd_resp"}
  /\ delivered => t.pc = "upd_resp"
  /\ LET st == IF delivered THEN t.st ELSE "neterr"
         base == tdInflight (-) SetToBag({t})
     IN /\ tdBurst' = IF st = "ok" THEN tdBurst
                      ELSE [tdBurst EXCEPT !.pre = FALSE]
        /\ IF st = "401" THEN
             \* tryRefreshToken, lines 76-86
             IF tdRefreshing THEN
               /\ tdSubscribers' = Append(tdSubscribers,
                                          [kind |-> "caller",
                                           slice |-> t.slice,
                                           data |-> t.data])
               /\ tdInflight' = base
               /\ tdEmitted' = {}
               /\ UNCHANGED tdRefreshing
             ELSE
               /\ tdRefreshing' = TRUE
               /\ tdInflight' = base (+)
                    SetToBag({[t EXCEPT !.pc = "refresh_sent",
                                        !.st = "none"]})
               /\ tdEmitted' = {}
               /\ UNCHANGED tdSubscribers
           ELSE
             /\ tdInflight' = base
             /\ tdEmitted' = {[ev |-> "notify",
                               type |-> IF st = "ok" THEN "success"
                                        ELSE "error"]}
             /\ UNCHANGED <<tdRefreshing, tdSubscribers>>
  /\ UNCHANGED <<tdLocal, tdTimers, tdTimer, tdToken, tdRemote, tdCalls,
                 tdDenied, notTd>>

\* /api/auth action 'refresh' answering the request of t
TdRefreshEndpoint(t, ok) ==
  /\ t.pc = "refresh_sent"
  /\ tdInflight' = (tdInflight (-) SetToBag({t}))
                     (+) SetToBag({[t EXCEPT !.pc = "refresh_resp",
                                      !.st = IF ok THEN "ok" ELSE "401"]})
  /\ tdEmitted' = {}
  /\ UNCHANGED <<tdLocal, tdTimers, tdTimer, tdToken, tdRefreshing,
                 tdSubscribers, tdRemote, tdCalls, tdDenied, tdBurst, notTd>>

\* tryRefreshToken, lines 88-106, and what the callers it resumes do next
\* (lines 167 and 191-197): on success the queued saves run _saveItem as
\* they are called back, then the queued callers and the caller of this
\* refresh run theirs; otherwise the queue is dropped
TdRefreshResponse(t, delivered) ==
  /\ t.pc \in {"refresh_sent", "refresh_resp"}
  /\ delivered => t.pc = "refresh_resp"
  /\ LET ok == delivered /\ t.st = "ok"
         Sub(kind) == SelectSeq(tdSubscribers, LAMBDA c : c.kind = kind)
         self == IF t.op = "init" THEN <<>>
                 ELSE <<[kind |-> "caller", slice |-> t.slice,
                         data |-> t.data]>>
         again == Sub("save") \o Sub("caller") \o self
         r == SaveItems(again, tdLocal, tdTimers, tdTimer)
     IN /\ tdToken' = IF ok THEN TRUE ELSE IF delivered THEN FALSE
                      ELSE tdToken
        /\ IF ok THEN
             /\ tdLocal' = r.loc
             /\ tdTimers' = r.timers
             /\ tdTimer' = r.cur
             /\ tdEmitted' = {[ev |-> "refreshed", ok |-> TRUE,
                               queued |-> tdSubscribers,
                               resumed |-> Len(tdSubscribers)]}
           ELSE
             /\ UNCHANGED <<tdLocal, tdTimers, tdTimer>>
             /\ tdEmitted' = {[ev |-> "refreshed", ok |-> FALSE,
                               queued |-> tdSubscribers, resumed |-> 0]}
                  \cup IF t.op = "init" THEN {}
                       ELSE {[ev |-> "notify", type |-> "error"]}
  /\ tdRefreshing' = FALSE
  /\ tdSubscribers' = <<>>
  /\ tdInflight' = tdInflight (-) SetToBag({t})
  /\ tdBurst' = [tdBurst EXCEPT !.pre = FALSE]
  /\ UNCHANGED <<tdRemote, tdCalls, tdDenied, notTd>>

TdNext ==
  \/ \E s \in TdSlices : TdSaveCall(s)
  \/ \E tm \in BagToSet(tdTimers) : TdTimerFire(tm)
  \/ \E t \in TdTasks, st \in {"ok", "401", "500"} : TdUpdateEndpoint(t, st)
  \/ \E t \in TdTasks, delivered \in BOOLEAN : TdSaveResponse(t, delivered)
  \/ \E t \in TdTasks, ok \in BOOLEAN : TdRefreshEndpoint(t, ok)
  \/ \E t \in TdTasks, delivered \in BOOLEAN : TdRefreshResponse(t, delivered)

SpecTD == TdInit /\ [][TdNext]_vars

\* C14: saves to one slice, each made before the timer of the one before
\* ran out, with a token at hand and every request answered 200, lead to
\* exactly one update request: none while the timer is pending, and once it
\* has run out one request carrying the value of the latest save.
C14_BurstSendsLatestOnce ==
  (tdBurst.pre /\ tdBurst.k >= 1) =>
    /\ Len(tdBurst.sent) <= 1
    /\ tdTimers # EmptyBag => tdBurst.sent = <<>>
    /\ tdTimers = EmptyBag => tdBurst.sent = <<tdBurst.last>>
    /\ tdTimers # EmptyBag =>
         tdTimers = SetToBag({[slice |-> tdBurst.slice,
                               data |-> tdBurst.last]})

\* three saves of one slice were coalesced into the one request sent
C14_Witness ==
  /\ tdBurst.pre
  /\ tdBurst.k >= 3
  /\ tdBurst.sent = <<tdBurst.last>>
  /\ tdTimers = EmptyBag

\* ======================================================================
\* The /api/auth and /api/update endpoints: src/functions/api/auth.ts,
\* src/functions/api/update.ts, src/unnamed/part_001, src/unnamed/part_002
\* ======================================================================
\* A token is the sequence of the segments token.split('.') yields.  A
\* segment is a record: kind says what it is, exp and type are the fields
\* of a payload, key is the secret of a signature, of/exp/type of a
\* signature are the data it was computed over, id is the number of a
\* random UUID, cut marks a segment that lost its '=' padding.
Seg(kind, of, exp, type, key, id) ==
  [kind |-> kind, of |-> of, exp |-> exp, type |-> type, key |-> key,
   id |-> id, cut |-> FALSE]

\* the empty string
Empty == Seg("empty", "", 0, "", "", 0)

\* a segment that is neither base64 of JSON nor a signature
Junk == Seg("junk", "", 0, "", "", 0)

\* undefined: the element split() did not yield
Absent == Seg("undefined", "", 0, "", "", 0)

\* crypto.randomUUID(), auth.ts lines 11-13
Uuid(n) == <<Seg("uuid", "", 0, "", "", n)>>

\* btoa(JSON.stringify({exp, type})), update.ts lines 94-98
Payload(exp, type) == Seg("payload", "", exp, type, "", 0)

\* sign() whatever the secret
SignUnkeyed(data, secret) ==
  Seg("sig", data.kind, data.exp, data.type, "", data.id)

\* sign(), update.ts lines 59-69: HMAC-SHA256 of data under secret, taken
\* to be free of collisions
Sign(data, secret) ==
  Seg("sig", data.kind, data.exp, data.type, secret, data.id)

Ttl(type) == IF type = "access" THEN AccessTtl ELSE RefreshTtl

\* generateToken, update.ts lines 92-101 and part_002 lines 34-45
GenerateToken(type, secret, now) ==
  LET payloadB64 == Payload(now + Ttl(type), type)
  IN <<payloadB64, Sign(payloadB64, secret)>>

\* verify, update.ts lines 71-90 and part_001 lines 40-55; JSON.parse
\* throwing lands in the catch, which returns false
Verify(token, secret, now) ==
  LET payloadB64 == IF Len(token) >= 1 THEN token[1] ELSE Empty
      signatureB64 == IF Len(token) >= 2 THEN token[2] ELSE Absent
  IN IF payloadB64 = Empty \/ signatureB64 \in {Empty, Absent} THEN FALSE
     ELSE IF signatureB64 # Sign(payloadB64, secret) THEN FALSE
     ELSE IF payloadB64.kind # "payload" \/ payloadB64.cut THEN FALSE
     ELSE ~(now > payloadB64.exp)

\* verify, part_002 lines 22-32: no test for empty halves, and the token
\* is good only before exp
VerifyD1(token, secret, now) ==
  LET payloadB64 == IF Len(token) >= 1 THEN token[1] ELSE Empty
      signatureB64 == IF Len(token) >= 2 THEN token[2] ELSE Absent
  IN IF signatureB64 # Sign(payloadB64, secret) THEN FALSE
     ELSE IF payloadB64.kind # "payload" \/ payloadB64.cut THEN FALSE
     ELSE now < payloadB64.exp

\* the segment ends in '=': the base64 of the 32 bytes of a signature
\* does, and so does that of {"exp":<13 digits>,"type":"access"} (37
\* bytes) and of {"exp":<13 digits>,"type":"refresh"} (38 bytes)
HasPad(seg) == ~seg.cut /\ seg.kind \in {"sig", "payload"}

Cut(seg) == [seg EXCEPT !.cut = TRUE]

\* getCookie, auth.ts lines 16-25 and update.ts lines 104-113:
\* const [k, v] = cookie.split('=') keeps the value up to its first '='
RECURSIVE GetCookie(_)
GetCookie(c) ==
  IF c = <<>> THEN <<>>
  ELSE IF HasPad(Head(c)) THEN <<Cut(Head(c))>>
  ELSE <<Head(c)>> \o GetCookie(Tail(c))

\* !token: null, undefined or ''
Falsy(tok) == tok = <<>> \/ tok = <<Empty>>

\* request.headers.get("Cookie")?.match(/refresh_token=([^;]+)/)?.[1],
\* part_002 lines 88-90
MatchCookie(c) == IF Falsy(c) THEN <<>> ELSE c

\* await env.KV_STORE.get("auth_code") || "admin"
StoredCode(code) == IF code = Undef \/ code = "" THEN DefaultCode ELSE code

\* !newCode || newCode.length < 4, auth.ts line 138
InvalidNewCode(c) == c = Undef \/ Len(c) < 4

\* a KV key access:<token> or refresh:<token> and when its TTL runs out
Session(ns, tok, exp) == [ns |-> ns, tok |-> tok, exp |-> exp]

\* env.KV_STORE.get of such a key
Live(keys, ns, tok, now) ==
  \E k \in keys : k.ns = ns /\ k.tok = tok /\ now < k.exp

\* KV_STORE.delete that removes nothing
KeepKey(keys, ns, tok) == keys

\* env.KV_STORE.delete of such a key
Delete(keys, ns, tok) == {k \in keys : ~(k.ns = ns /\ k.tok = tok)}

\* one entry of the history of issued tokens
Issue(tok, kind, secret) ==
  [tok |-> tok, at |-> auNow, kind |-> kind, secret |-> secret]

\* what a handler answers and leaves behind
Res(st, ok, setCookie, authed, code, keys, store, out) ==
  [st |-> st, ok |-> ok, setCookie |-> setCookie, authed |-> authed,
   code |-> code, kv |-> keys, store |-> store, out |-> out]

\* a response that changes nothing
Refuse(st, setCookie, authed) ==
  Res(st, FALSE, setCookie, authed, auCode, auKv, auStore, {})

AuthRequest(action, code, cur, new, hdr, ck) ==
  [NoRequest EXCEPT !.ep = "auth", !.variant = auVariant,
                    !.action = action, !.code = code, !.cur = cur,
                    !.new = new, !.hdr = hdr, !.cookie = ck]

UpdateRequest(action, hdr, type, data) ==
  [NoRequest EXCEPT !.ep = "update", !.variant = auVariant,
                    !.action = action, !.hdr = hdr, !.type = type,
                    !.data = data]

\* the token strings a client can present: the issued ones, an issued one
\* with ".x" appended or cut after its first segment, "x" and ""
Pool == {r.tok : r \in auIssued}

Forms ==
  Pool \cup {t \o <<Junk>> : t \in Pool} \cup {<<t[1]>> : t \in Pool}
       \cup {<<Junk>>, <<Empty>>}

Headers ==
  {NoHeader} \cup {[scheme |-> "Bearer", tok |-> f] : f \in Forms}
             \cup {[scheme |-> "Basic", tok |-> f] : f \in Pool}

Cookies == {NoCookie} \cup Forms

ReqCodes == {DefaultCode, "code1"}

NewCodes == {Undef, "abc", "code1"}

\* the bodies of /api/update: an object for each key, a string for the
\* background, no data field, a type that is not a key
NoData == [t |-> Undef, v |-> 0]

Bodies ==
  {<<k, [t |-> "obj", v |-> 1]>> : k \in Keys}
  \cup {<<"background", [t |-> "str", v |-> 2]>>, <<"categories", NoData>>,
        <<"other", [t |-> "obj", v |-> 1]>>}

\* action "nobody": the body is not JSON
AuthRequests ==
  {AuthRequest("login", c, Undef, Undef, NoHeader, NoCookie) :
     c \in ReqCodes}
  \cup {AuthRequest(a, Undef, Undef, Undef, NoHeader, c) :
          a \in {"refresh", "logout"}, c \in Cookies}
  \cup {AuthRequest("update", Undef, x[1], x[2], h, NoCookie) :
          x \in ReqCodes \X NewCodes, h \in Headers}
  \cup {AuthRequest(a, Undef, Undef, Undef, NoHeader, NoCookie) :
          a \in {"other", "nobody"}}

UpdateRequests ==
  {UpdateRequest("json", h, x[1], x[2]) : x \in Bodies, h \in Headers}
  \cup {UpdateRequest("nobody", h, Undef, NoData) : h \in Headers}

AuInit ==
  /\ auVariant \in Variants
  /\ auCode = Undef
  /\ auStore = [k \in Keys |-> NoValue]
  /\ auKv = {}
  /\ auNow = 0
  /\ auIssued = {}
  /\ auStale = {}
  /\ EngineOff
  /\ DfOff
  /\ TdOff
  /\ SeOff
  /\ RfOff
  /\ PfOff
  /\ BcOff

\* the response r to req is sent: what the handler wrote is stored
Answer(req, r) ==
  /\ Cardinality(auIssued \cup r.out) <= 2 * AuMaxIssue
  /\ auCode' = r.code
  /\ auKv' = r.kv
  /\ auStore' = r.store
  /\ auIssued' = auIssued \cup r.out
  /\ auStale' = IF req.ep = "auth" /\ req.action = "update" /\ r.ok
                  THEN auIssued ELSE auStale
  /\ UNCHANGED <<auVariant, auNow, notAu>>

\* time passes on the server
AuTick ==
  /\ auNow < AuMaxTime
  /\ auNow' = auNow + 1
  /\ UNCHANGED <<auVariant, auCode, auStore, auKv, auIssued, auStale,
                 notAu>>

\* /api/auth on KV sessions, auth.ts lines 47-151
KvAuthResult(req) ==
  LET storedCode == StoredCode(auCode)
      n == Cardinality(auIssued)
      newAccessToken == Uuid(n + 1)
      newRefreshToken == Uuid(n + 2)
      put == {Session("access", newAccessToken, auNow + AccessTtl),
              Session("refresh", newRefreshToken, auNow + RefreshTtl)}
      pair == {Issue(newAccessToken, "access", Undef),
               Issue(newRefreshToken, "refresh", Undef)}
      rfCookie == GetCookie(req.cookie)
      token == req.hdr.tok
  IN IF req.action = "login" THEN
       IF req.code # storedCode THEN Refuse("401", "none", FALSE)
       ELSE Res("200", TRUE, "set", FALSE, auCode, auKv \cup put, auStore,
                pair)
     ELSE IF req.action = "refresh" THEN
       IF Falsy(rfCookie) THEN Refuse("401", "none", FALSE)
       ELSE IF ~Live(auKv, "refresh", rfCookie, auNow) THEN
         Res("200", FALSE, "clear", FALSE, auCode,
             Delete(auKv, "refresh", rfCookie), auStore, {})
       ELSE Res("200", TRUE, "set", TRUE, auCode,
                Delete(auKv, "refresh", rfCookie) \cup put, auStore, pair)
     ELSE IF req.action = "logout" THEN
       Res("200", TRUE, "clear", FALSE, auCode,
           IF Falsy(rfCookie) THEN auKv
           ELSE Delete(auKv, "refresh", rfCookie), auStore, {})
     ELSE IF req.action = "update" THEN
       IF req.hdr.scheme # "Bearer" THEN Refuse("401", "none", FALSE)
       ELSE IF ~Live(auKv, "access", token, auNow) THEN
         Refuse("401", "none", FALSE)
       ELSE IF req.cur # storedCode THEN Refuse("403", "none", TRUE)
       ELSE IF InvalidNewCode(req.new) THEN Refuse("400", "none", TRUE)
       ELSE Res("200", TRUE, "none", TRUE, req.new, auKv, auStore, {})
     ELSE Refuse("400", "none", FALSE)

KvAuth(req) ==
  /\ auVariant = "kv"
  /\ Answer(req, KvAuthResult(req))

\* /api/auth with signed tokens on KV, update.ts lines 129-209
StatelessAuthResult(req) ==
  LET storedCode == StoredCode(auCode)
      newAccessToken == GenerateToken("access", storedCode, auNow)
      newRefreshToken == GenerateToken("refresh", storedCode, auNow)
      pair == {Issue(newAccessToken, "access", storedCode),
               Issue(newRefreshToken, "refresh", storedCode)}
      rfCookie == GetCookie(req.cookie)
      token == req.hdr.tok
  IN IF req.action = "login" THEN
       IF req.code # storedCode THEN Refuse("401", "none", FALSE)
       ELSE Res("200", TRUE, "set", FALSE, auCode, auKv, auStore, pair)
     ELSE IF req.action = "refresh" THEN
       IF Falsy(rfCookie) THEN Refuse("401", "none", FALSE)
       ELSE IF ~Verify(rfCookie, storedCode, auNow) THEN
         Refuse("200", "clear", FALSE)
       ELSE Res("200", TRUE, "set", TRUE, auCode, auKv, auStore, pair)
     ELSE IF req.action = "logout" THEN
       Res("200", TRUE, "clear", FALSE, auCode, auKv, auStore, {})
     ELSE IF req.action = "update" THEN
       IF req.hdr.scheme # "Bearer" THEN Refuse("401", "none", FALSE)
       ELSE IF ~Verify(token, storedCode, auNow) THEN
         Refuse("401", "none", FALSE)
       ELSE IF req.cur # storedCode THEN Refuse("403", "none", TRUE)
       ELSE IF InvalidNewCode(req.new) THEN Refuse("400", "none", TRUE)
       ELSE Res("200", TRUE, "none", TRUE, req.new, auKv, auStore, {})
     ELSE Refuse("400", "none", FALSE)

StatelessAuth(req) ==
  /\ auVariant = "stateless"
  /\ Answer(req, StatelessAuthResult(req))

\* /api/auth with signed tokens on D1, part_002 lines 59-120: a body that
\* is not JSON and an undefined newCode bound to the statement both throw
D1AuthResult(req) ==
  LET storedCode == StoredCode(auCode)
      newAccessToken == GenerateToken("access", storedCode, auNow)
      newRefreshToken == GenerateToken("refresh", storedCode, auNow)
      pair == {Issue(newAccessToken, "access", storedCode),
               Issue(newRefreshToken, "refresh", storedCode)}
      rfToken == MatchCookie(req.cookie)
      token == req.hdr.tok
  IN IF req.action = "nobody" THEN Refuse("500", "none", FALSE)
     ELSE IF req.action = "login" THEN
       IF req.code # storedCode THEN Refuse("401", "none", FALSE)
       ELSE Res("200", TRUE, "set", FALSE, auCode, auKv, auStore, pair)
     ELSE IF req.action = "refresh" THEN
       IF Falsy(rfToken) \/ ~VerifyD1(rfToken, storedCode, auNow) THEN
         Refuse("200", "clear", FALSE)
       ELSE Res("200", TRUE, "set", TRUE, auCode, auKv, auStore, pair)
     ELSE IF req.action = "update" THEN
       IF Falsy(token) \/ ~VerifyD1(token, storedCode, auNow) THEN
         Refuse("403", "none", FALSE)
       ELSE IF req.cur # storedCode THEN Refuse("403", "none", TRUE)
       ELSE IF req.new = Undef THEN Refuse("500", "none", TRUE)
       ELSE Res("200", TRUE, "none", TRUE, req.new, auKv, auStore, {})
     ELSE Res("200", TRUE, "none", FALSE, auCode, auKv, auStore, {})

D1Auth(req) ==
  /\ auVariant = "d1"
  /\ Answer(req, D1AuthResult(req))

\* JSON.stringify(data)
Stringify(data) == [enc |-> "json", t |-> data.t, v |-> data.v]

\* what update.ts lines 30-35 hand to KV_STORE.put: background is passed
\* as it is, and an object passed so is stored as "[object Object]"
KvValue(type, data) ==
  IF type = "background"
    THEN IF data.t = "str" THEN [enc |-> "raw", t |-> "str", v |-> data.v]
         ELSE [enc |-> "raw", t |-> "str", v |-> ObjectString]
    ELSE Stringify(data)

\* valueToStore, part_001 lines 84-93
D1Value(type, data) ==
  IF type = "background" /\ data.t = "str"
    THEN [enc |-> "raw", t |-> "str", v |-> data.v]
    ELSE Stringify(data)

\* /api/update on KV sessions, update.ts lines 6-46; put and bind throw
\* on undefined
KvUpdateResult(req) ==
  LET token == req.hdr.tok
  IN IF req.hdr.scheme # "Bearer" THEN Refuse("401", "none", FALSE)
     ELSE IF ~Live(auKv, "access", token, auNow) THEN
       Refuse("401", "none", FALSE)
     ELSE IF req.action = "nobody" THEN Refuse("500", "none", TRUE)
     ELSE IF req.type \notin Keys THEN Refuse("400", "none", TRUE)
     ELSE IF req.data.t = Undef THEN Refuse("500", "none", TRUE)
     ELSE Res("200", TRUE, "none", TRUE, auCode, auKv,
              [auStore EXCEPT ![req.type] = KvValue(req.type, req.data)],
              {})

KvUpdate(req) ==
  /\ auVariant = "kv"
  /\ Answer(req, KvUpdateResult(req))

\* /api/update with signed tokens, part_001 lines 57-107
D1UpdateResult(req) ==
  LET token == req.hdr.tok
      storedCode == StoredCode(auCode)
  IN IF req.hdr.scheme # "Bearer" THEN Refuse("401", "none", FALSE)
     ELSE IF ~Verify(token, storedCode, auNow) THEN
       Refuse("401", "none", FALSE)
     ELSE IF req.action = "nobody" THEN Refuse("500", "none", TRUE)
     ELSE IF req.type \notin Keys THEN Refuse("400", "none", TRUE)
     ELSE IF req.data.t = Undef THEN Refuse("500", "none", TRUE)
     ELSE Res("200", TRUE, "none", TRUE, auCode, auKv,
              [auStore EXCEPT ![req.type] = D1Value(req.type, req.data)],
              {})

D1Update(req) ==
  /\ auVariant \in {"stateless", "d1"}
  /\ Answer(req, D1UpdateResult(req))

AuNext ==
  \/ AuTick
  \/ \E req \in AuthRequests : KvAuth(req)
  \/ \E req \in AuthRequests : StatelessAuth(req)
  \/ \E req \in AuthRequests : D1Auth(req)
  \/ \E req \in UpdateRequests : KvUpdate(req)
  \/ \E req \in UpdateRequests : D1Update(req)

SpecAuth == AuInit /\ [][AuNext]_vars

\* the answer of the deployed /api/auth handler to req
HandleAuth(req) ==
  IF auVariant = "kv" THEN KvAuthResult(req)
  ELSE IF auVariant = "stateless" THEN StatelessAuthResult(req)
  ELSE D1AuthResult(req)

\* the answer of the deployed /api/update handler to req
HandleUpdate(req) ==
  IF auVariant = "kv" THEN KvUpdateResult(req) ELSE D1UpdateResult(req)

Bearer(tok) == [scheme |-> "Bearer", tok |-> tok]

\* a save of categories carrying tok as its bearer token
SaveWith(tok) ==
  UpdateRequest("json", Bearer(tok), "categories", [t |-> "obj", v |-> 1])

\* a change of the code to "code1" carrying tok as its bearer token and
\* the stored code as currentCode
ChangeWith(tok) ==
  AuthRequest("update", Undef, StoredCode(auCode), "code1", Bearer(tok),
              NoCookie)

\* a refresh carrying tok as its refresh_token cookie
RefreshWith(tok) ==
  AuthRequest("refresh", Undef, Undef, Undef, NoHeader, tok)

Signed == auVariant \in {"stateless", "d1"}

\* the access tokens issued before the last successful change of the code
\* that have not reached their expiry
StaleAccess ==
  {i \in auStale : i.kind = "access" /\ auNow < i.at + AccessTtl}

C16_KindsNotInterchangeable ==
  Signed =>
    \A i \in auIssued :
      /\ i.kind = "refresh" =>
           /\ ~HandleUpdate(SaveWith(i.tok)).authed
           /\ ~HandleAuth(ChangeWith(i.tok)).authed
      /\ i.kind = "access" => ~HandleAuth(RefreshWith(i.tok)).ok

\* tok is an access token that was issued and has not expired
ValidAccess(tok) ==
  \E i \in auIssued :
    i.tok = tok /\ i.kind = "access" /\ auNow <= i.at + AccessTtl

\* C17: under every /api/auth handler the stored access code changes only
\* by an 'update' request that carries a valid access token as its bearer
\* token and the stored code as currentCode; no other request to /api/auth
\* or /api/update changes it.
C17_CodeChangesOnlyByUpdate ==
  /\ \A req \in AuthRequests :
       HandleAuth(req).code # auCode =>
         /\ req.action = "update"
         /\ ValidAccess(req.hdr.tok)
         /\ req.cur = StoredCode(auCode)
  /\ \A req \in UpdateRequests : HandleUpdate(req).code = auCode

\* hdr is a Bearer header whose token was issued, has not expired and, if
\* signed, was signed with the stored code; under KV sessions only the
\* access tokens are known to /api/update
ValidBearer(hdr) ==
  /\ hdr.scheme = "Bearer"
  /\ \E i \in auIssued :
       /\ i.tok = hdr.tok
       /\ IF auVariant = "kv"
            THEN i.kind = "access" /\ auNow < i.at + AccessTtl
            ELSE i.secret = StoredCode(auCode) /\ auNow <= i.at + Ttl(i.kind)

\* C18: /api/update changes the store only for a request with a valid
\* bearer token and a type among categories, background, prefs, and then
\* only the key named by type; a request whose bearer token is missing,
\* malformed, unknown or expired gets 401, one with another type gets 400,
\* and both leave every stored key as it was.
C18_UpdateFrame ==
  \A req \in UpdateRequests :
    LET r == HandleUpdate(req)
        kept == r.store = auStore /\ r.code = auCode /\ r.kv = auKv
    IN /\ ~kept =>
            /\ ValidBearer(req.hdr)
            /\ req.type \in Keys
            /\ r.code = auCode /\ r.kv = auKv
            /\ \A k \in Keys \ {req.type} : r.store[k] = auStore[k]
       /\ ~ValidBearer(req.hdr) => r.st = "401" /\ kept
       /\ (ValidBearer(req.hdr) /\ req.action = "json"
           /\ req.type \notin Keys) => r.st = "400" /\ kept

\* the secrets and the times the codec is tried with
Secrets == {DefaultCode, "code1", "abc"}

Times == 0 .. AuMaxTime + 1

\* C19: a token issued at t0 with kind k and secret s verifies at time now
\* under secret s2 exactly when s2 = s and now <= t0 + ttl(k); verify
\* returns false for every string that is not of the form
\* payload.signature or whose signature is not sign(payload, s2).
C19_VerifyIffIssued ==
  Signed =>
    \A s2 \in Secrets :
      /\ \A i \in auIssued, now \in Times :
           Verify(i.tok, s2, now)
             <=> (s2 = i.secret /\ now <= i.at + Ttl(i.kind))
      /\ \A f \in Forms :
           (Len(f) # 2 \/ f[2] # Sign(f[1], s2)) => ~Verify(f, s2, auNow)

\* ======================================================================
\* The session of the dirty-flag service (src/src/services/storage.ts,
\* lines 82-147, 152-181 and 267-328) against the signed-token /api/auth
\* ======================================================================
\* null
NoTok == <<>>

\* undefined: data.accessToken of a body without that field
UndefTok == <<Absent>>

\* the string localStorage.setItem stores for a value: String(undefined)
\* is "undefined"
Stored(tok) == IF tok = UndefTok THEN <<Junk>> ELSE tok

\* a token or string that passes `if (token)`
Truthy(tok) == tok # NoTok /\ tok # UndefTok /\ tok # <<Empty>>

\* the refresh_token cookie a browser can hold at page load: none, one
\* signed with the stored code, one signed with a code since replaced
SeCookies ==
  {NoCookie, GenerateToken("refresh", DefaultCode, 0),
   GenerateToken("refresh", "code1", 0)}

SeTask(op, pc) ==
  [op |-> op, pc |-> pc, ck |-> NoCookie, tok |-> NoTok, cur |-> Undef,
   new |-> Undef]

SeTasks == BagToSet(seInflight)

\* page load with whatever an earlier visit left in localStorage and in
\* the cookie jar, before init() has run
SeInit ==
  /\ auVariant \in {"stateless", "d1"}
  /\ auCode = Undef
  /\ auStore = [k \in Keys |-> NoValue]
  /\ auKv = {}
  /\ auNow = 0
  /\ auIssued = {}
  /\ auStale = {}
  /\ seMem = NoTok
  /\ \E st \in {"none", "future", "past"} :
       /\ seStored = IF st = "none" THEN NoTok
                     ELSE GenerateToken("access", DefaultCode, 0)
       /\ seExpiry = st
       \* logout() removes the token when it sets USER_LOGGED_OUT
       /\ seLoggedOut \in IF st = "none" THEN BOOLEAN ELSE {FALSE}
  /\ seRefreshing = FALSE
  /\ seSubscribers = <<>>
  /\ seCookie \in SeCookies
  /\ seInflight = EmptyBag
  /\ seCalls = 0
  /\ seEmitted = {}
  /\ EngineOff
  /\ DfOff
  /\ TdOff
  /\ RfOff
  /\ PfOff
  /\ BcOff

\* the answer of the deployed signed-token /api/auth handler
SeServer(req) ==
  IF auVariant = "d1" THEN D1AuthResult(req) ELSE StatelessAuthResult(req)

\* the token of kind `kind` among those a response carries
Carried(r, kind) ==
  IF \E i \in r.out : i.kind = kind
    THEN (CHOOSE i \in r.out : i.kind = kind).tok
    ELSE UndefTok

\* the cookie jar after the Set-Cookie header of r
Jar(r, jar) ==
  IF r.setCookie = "set" THEN Carried(r, "refresh")
  ELSE IF r.setCookie = "clear" THEN NoCookie
  ELSE jar

Returned(op, val) == [ev |-> "returned", op |-> op, val |-> val]

Thrown(op) == [ev |-> "thrown", op |-> op, val |-> "void"]

\* what the caller op of ensureAccessToken does with token: isAuthenticated
\* (lines 307-310) returns !!token, updateAccessCode (lines 312-331)
\* returns false or sends its request
Continue(c, token) ==
  IF c.op = "isAuthenticated"
    THEN [evs |-> {Returned(c.op, IF Truthy(token) THEN "true"
                                  ELSE "false")},
          sent |-> EmptyBag]
  ELSE IF ~Truthy(token)
    THEN [evs |-> {Returned(c.op, "false")}, sent |-> EmptyBag]
  ELSE [evs |-> {},
        sent |-> SetToBag({[c EXCEPT !.pc = "update", !.tok = token]})]

RECURSIVE ContinueAll(_, _)
ContinueAll(cs, token) ==
  IF cs = <<>> THEN [evs |-> {}, sent |-> EmptyBag]
  ELSE LET a == Continue(Head(cs), token)
           b == ContinueAll(Tail(cs), token)
       IN [evs |-> a.evs \cup b.evs, sent |-> a.sent (+) b.sent]

\* ensureAccessToken, lines 116-147, called by c
SeEnsureAccessToken(c) ==
  IF Truthy(seMem) THEN
    LET k == Continue(c, seMem)
    IN /\ seInflight' = seInflight (+) k.sent
       /\ seEmitted' = k.evs
       /\ UNCHANGED <<seMem, seRefreshing, seSubscribers>>
  ELSE IF Truthy(seStored) /\ seExpiry = "future" THEN
    LET k == Continue(c, seStored)
    IN /\ seMem' = seStored
       /\ seInflight' = seInflight (+) k.sent
       /\ seEmitted' = k.evs
       /\ UNCHANGED <<seRefreshing, seSubscribers>>
  ELSE IF Truthy(seStored) /\ seExpiry # "none" THEN
    IF seRefreshing THEN
      /\ seSubscribers' = Append(seSubscribers, c)
      /\ seEmitted' = {}
      /\ UNCHANGED <<seMem, seRefreshing, seInflight>>
    ELSE
      /\ seRefreshing' = TRUE
      /\ seInflight' = seInflight (+)
           SetToBag({[c EXCEPT !.pc = "refresh", !.ck = seCookie]})
      /\ seEmitted' = {}
      /\ UNCHANGED <<seMem, seSubscribers>>
  ELSE
    LET k == Continue(c, NoTok)
    IN /\ seInflight' = seInflight (+) k.sent
       /\ seEmitted' = k.evs
       /\ UNCHANGED <<seMem, seRefreshing, seSubscribers>>

SeCanCall == seCalls < SeMaxCalls

\* isAuthenticated, lines 307-310
SeIsAuthenticated ==
  /\ SeCanCall
  /\ seCalls' = seCalls + 1
  /\ SeEnsureAccessToken(SeTask("isAuthenticated", "ensure"))
  /\ UNCHANGED <<seStored, seExpiry, seLoggedOut, seCookie, auVars, notSe>>

\* updateAccessCode, lines 312-331, up to its fetch
SeUpdateAccessCode(cur, new) ==
  /\ SeCanCall
  /\ seCalls' = seCalls + 1
  /\ SeEnsureAccessToken([SeTask("updateAccessCode", "ensure")
                          EXCEPT !.cur = cur, !.new = new])
  /\ UNCHANGED <<seStored, seExpiry, seLoggedOut, seCookie, auVars, notSe>>

\* login (lines 267-273) and logout (lines 289-295), up to their fetch
SeSend(op, code) ==
  /\ SeCanCall
  /\ seCalls' = seCalls + 1
  /\ seInflight' = seInflight (+)
       SetToBag({[SeTask(op, op) EXCEPT !.ck = seCookie, !.cur = code]})
  /\ seEmitted' = {}
  /\ UNCHANGED <<seMem, seStored, seExpiry, seLoggedOut, seRefreshing,
                 seSubscribers, seCookie, auVars, notSe>>

\* the page is loaded again: the module state is new, the requests of the
\* old page are gone, and init() (lines 152-181) runs
SeReload ==
  /\ SeCanCall
  /\ seCalls' = seCalls + 1
  /\ seMem' = NoTok
  /\ seRefreshing' = FALSE
  /\ seSubscribers' = <<>>
  /\ seInflight' =
       IF ~seLoggedOut /\ Truthy(seStored) /\ seExpiry = "past"
         THEN SetToBag({[SeTask("init", "refresh") EXCEPT !.ck = seCookie]})
         ELSE EmptyBag
  /\ seEmitted' = {}
  /\ UNCHANGED <<seStored, seExpiry, seLoggedOut, seCookie, auVars, notSe>>

\* the 24 hours of TOKEN_EXPIRY pass
SeExpire ==
  /\ seExpiry = "future"
  /\ seExpiry' = "past"
  /\ seEmitted' = {}
  /\ UNCHANGED <<seMem, seStored, seLoggedOut, seRefreshing, seSubscribers,
                 seCookie, seInflight, seCalls, auVars, notSe>>

\* tryRefreshToken, lines 87-114, from the answer on, and for a refresh
\* started by ensureAccessToken its lines 140-142 with the callers resumed.
\* A fetch that is not delivered rejects before the server saw it.
SeRefreshResponse(t, delivered) ==
  /\ t.pc = "refresh"
  /\ LET r == SeServer(AuthRequest("refresh", Undef, Undef, Undef, NoHeader,
                                   t.ck))
         ok == delivered /\ r.st = "200"
         denied == delivered /\ r.st \in {"401", "403"}
         token == Carried(r, "access")
         newToken == IF ok THEN token ELSE NoTok
         mem == IF ok THEN token ELSE IF denied THEN NoTok ELSE seMem
         k == IF t.op = "init" THEN [evs |-> {}, sent |-> EmptyBag]
              ELSE ContinueAll(seSubscribers \o <<t>>, newToken)
     IN /\ seMem' = mem
        /\ seStored' = IF ok THEN Stored(token)
                       ELSE IF denied THEN NoTok ELSE seStored
        /\ seExpiry' = IF ok THEN "future"
                       ELSE IF denied THEN "none" ELSE seExpiry
        /\ seLoggedOut' = IF denied THEN FALSE ELSE seLoggedOut
        /\ seCookie' = IF delivered THEN Jar(r, seCookie) ELSE seCookie
        /\ IF t.op = "init"
             THEN UNCHANGED <<seRefreshing, seSubscribers>>
             ELSE seRefreshing' = FALSE /\ seSubscribers' = <<>>
        /\ seInflight' = (seInflight (-) SetToBag({t})) (+) k.sent
        /\ seEmitted' = k.evs \cup
             {[ev |-> "refreshed", op |-> t.op,
               val |-> IF ~delivered THEN "failed"
                       ELSE IF r.ok THEN "accepted" ELSE "rejected"]}
  /\ UNCHANGED <<seCalls, auVars, notSe>>

\* login, lines 273-286, from the answer on
SeLoginResponse(t, delivered) ==
  /\ t.pc = "login"
  /\ LET r == SeServer(AuthRequest("login", t.cur, Undef, Undef, NoHeader,
                                   t.ck))
         ok == delivered /\ r.st = "200"
     IN /\ seMem' = IF ok THEN Carried(r, "access") ELSE seMem
        /\ seStored' = IF ok THEN Stored(Carried(r, "access")) ELSE seStored
        /\ seExpiry' = IF ok THEN "future" ELSE seExpiry
        /\ seLoggedOut' = IF ok THEN FALSE ELSE seLoggedOut
        /\ seCookie' = IF delivered THEN Jar(r, seCookie) ELSE seCookie
        /\ seEmitted' = {Returned("login", IF ok THEN "true" ELSE "false")}
  /\ seInflight' = seInflight (-) SetToBag({t})
  /\ UNCHANGED <<seRefreshing, seSubscribers, seCalls, auVars, notSe>>

\* logout, lines 295-303, from the answer on: the finally block runs, and
\* with no catch a rejected fetch rejects logout()
SeLogoutResponse(t, delivered) ==
  /\ t.pc = "logout"
  /\ LET r == SeServer(AuthRequest("logout", Undef, Undef, Undef, NoHeader,
                                   t.ck))
     IN seCookie' = IF delivered THEN Jar(r, seCookie) ELSE seCookie
  /\ seMem' = NoTok
  /\ seStored' = NoTok
  /\ seExpiry' = "none"
  /\ seLoggedOut' = TRUE
  /\ seEmitted' = {IF delivered THEN Returned("logout", "void")
                   ELSE Thrown("logout")}
  /\ seInflight' = seInflight (-) SetToBag({t})
  /\ UNCHANGED <<seRefreshing, seSubscribers, seCalls, auVars, notSe>>

\* updateAccessCode, lines 316-330, from the answer on; the server stores
\* the new code when it accepts the request
SeUpdateResponse(t, delivered) ==
  /\ t.pc = "update"
  /\ LET r == SeServer(AuthRequest("update", Undef, t.cur, t.new,
                                   Bearer(t.tok), NoCookie))
     IN /\ auCode' = IF delivered THEN r.code ELSE auCode
        /\ seEmitted' = {Returned("updateAccessCode",
                                  IF delivered /\ r.st = "200" THEN "true"
                                  ELSE "false")}
  /\ seInflight' = seInflight (-) SetToBag({t})
  /\ UNCHANGED <<seMem, seStored, seExpiry, seLoggedOut, seRefreshing,
                 seSubscribers, seCookie, seCalls, auVariant, auStore, auKv,
                 auNow, auIssued, auStale, notSe>>

SeNext ==
  \/ SeIsAuthenticated
  \/ \E cur \in ReqCodes : SeUpdateAccessCode(cur, "code1")
  \/ \E code \in ReqCodes : SeSend("login", code)
  \/ SeSend("logout", Undef)
  \/ SeReload
  \/ SeExpire
  \/ \E t \in SeTasks, delivered \in BOOLEAN : SeRefreshResponse(t, delivered)
  \/ \E t \in SeTasks, delivered \in BOOLEAN : SeLoginResponse(t, delivered)
  \/ \E t \in SeTasks, delivered \in BOOLEAN : SeLogoutResponse(t, delivered)
  \/ \E t \in SeTasks, delivered \in BOOLEAN : SeUpdateResponse(t, delivered)

SpecSess == SeInit /\ [][SeNext]_vars

\* the next ensureAccessToken() finds a token without asking the server
HoldsToken == Truthy(seMem) \/ (Truthy(seStored) /\ seExpiry = "future")

\* C21: when /api/auth has rejected a refresh because the cookie is
\* invalid or expired, the client holds no access token in memory or in
\* localStorage, and the next ensureAccessToken() / isAuthenticated()
\* reports no session.
C21_RejectedRefreshLogsOut ==
  \A e \in seEmitted :
    (e.ev = "refreshed" /\ e.val = "rejected") =>
      /\ ~Truthy(seMem)
      /\ ~Truthy(seStored)
      /\ ~HoldsToken

\* C22: in the dirty-flag service, a successful login() made while a slice
\* is flagged dirty starts a push of the dirty slices by itself: the step
\* that completes the login sends an update request.
C22_LoginStartsPush ==
  \A e \in dfEmitted :
    (e.ev = "login" /\ SomeDirty(e.dirty)) =>
      \E f \in dfEmitted : f.ev = "sent"

\* C26: no public operation of the dirty-flag service ends with an
\* exception or a rejected promise handed to its caller when a network
\* request fails; here for login, logout, isAuthenticated and
\* updateAccessCode, whose every outcome is an event of the step.
C26_NothingThrown == \A e \in seEmitted : e.ev # "thrown"

\* ======================================================================
\* wrapData and processSync of src/services/storage.ts by themselves
\* ======================================================================
\* a present value that is falsy: 0, "" or false
EmptyValue == Entry("empty", 0, 0, FALSE)

\* what localStorage can hold for a slice: nothing, a legacy value (falsy
\* or not), a wrapper
PfCached ==
  {NoEntry, EmptyValue}
    \cup {Entry("raw", x, 0, FALSE) : x \in 1..PfMaxData}
    \cup {Wrapper(x, ts, dirty) :
            x \in 0..PfMaxData, ts \in 0..PfMaxTime, dirty \in BOOLEAN}

\* what the bootstrap response can hold for a slice: nothing, a legacy
\* value, a wrapper a client pushed, whose updatedAt is the Date.now() of
\* a save
PfRemote ==
  {Entry("null", 0, 0, FALSE), EmptyValue}
    \cup {Entry("raw", x, 0, FALSE) : x \in 1..PfMaxData}
    \cup {Wrapper(x, ts, dirty) :
            x \in 0..PfMaxData, ts \in 1..PfMaxTime, dirty \in BOOLEAN}

\* the defaults of the slices
PfDefaults == {7, 8}

NoOut == [op |-> "none", val |-> NoEntry, ret |-> 0, updated |-> FALSE]

PfInit ==
  /\ pfCurrent \in PfCached
  /\ pfCloud \in PfRemote
  /\ pfDefault \in PfDefaults
  /\ pfOut = NoOut
  /\ EngineOff
  /\ DfOff
  /\ TdOff
  /\ AuOff
  /\ SeOff
  /\ RfOff
  /\ BcOff

\* wrapData with the wrapper's flag reset
WrapDataClean(rawData, defaultVal) ==
  IF rawData.kind = "wrapper"
    THEN Wrapper(rawData.data, rawData.updatedAt, FALSE)
    ELSE Wrapper(IF rawData.kind # "absent" THEN rawData.data
                 ELSE defaultVal, 0, FALSE)

\* wrapData, lines 77-91
WrapData(rawData, defaultVal) ==
  IF rawData.kind = "wrapper" THEN rawData
  ELSE LET hasData == rawData.kind # "absent"
       IN Wrapper(IF hasData THEN rawData.data ELSE defaultVal, 0, FALSE)

\* wrapData applied to the cached value
PfWrapData ==
  /\ pfOut.op = "none"
  /\ pfOut' = [NoOut EXCEPT !.op = "wrapData",
                            !.val = WrapData(pfCurrent, pfDefault)]
  /\ UNCHANGED <<pfCurrent, pfCloud, pfDefault, notPf>>

\* wrapData applied to its own result
PfWrapAgain ==
  /\ pfOut.op = "wrapData"
  /\ pfOut' = [NoOut EXCEPT !.op = "wrapAgain",
                            !.val = WrapData(pfOut.val, pfDefault)]
  /\ UNCHANGED <<pfCurrent, pfCloud, pfDefault, notPf>>

\* processSync, lines 390-426, applied to the cached and the remote value:
\* val is the cache entry afterwards
PfProcessSync ==
  /\ pfOut.op = "none"
  /\ pfOut' = [op |-> "processSync",
               val |-> ProcessSync(pfCurrent, pfCloud),
               ret |-> SyncedVal(pfCurrent, pfCloud),
               updated |-> Adopts(pfCurrent, pfCloud)]
  /\ UNCHANGED <<pfCurrent, pfCloud, pfDefault, notPf>>

\* JSON.stringify of a wrapper: a string, and no string a user saved
JsonText(w) ==
  PfMaxData + 1 + (w.data * (PfMaxTime + 1) + w.updatedAt) * 2
    + (IF w.dirty THEN 1 ELSE 0)

\* the update endpoint on D1, src/unnamed/part_001 lines 84-93: the text
\* stored in the config row is data itself for a background that is a
\* string, JSON.stringify(data) otherwise
ValueToStore(type, data) ==
  [json |-> ~(type = "background" /\ data.kind \in {"raw", "empty"}),
   val |-> data]

\* the bootstrap endpoint on D1, src/functions/api/bootstrap.ts lines
\* 118-129: categories and prefs go through safeParse, background is the
\* text of the row as it is (`background || null`)
ResponseField(type, row) ==
  IF type # "background" THEN row.val
  ELSE IF row.json THEN Entry("raw", JsonText(row.val), 0, FALSE)
  ELSE IF row.val.kind = "empty" THEN Entry("null", 0, 0, FALSE)
  ELSE row.val

\* a background saved with a token (_saveItem, lines 296-330) and
\* accepted by /api/update, then the bootstrap response processed on a
\* device that never wrote the slice (processSync, lines 390-426)
PfRoundTrip ==
  /\ pfOut.op = "none"
  /\ pfCurrent.kind = "wrapper"
  /\ pfCurrent.dirty
  /\ pfCurrent.updatedAt > 0
  /\ \E there \in {e \in PfCached : e.kind \in {"absent", "empty", "raw"}} :
       LET cloudRaw == ResponseField("background",
                                     ValueToStore("background", pfCurrent))
       IN /\ pfCloud' = cloudRaw
          /\ pfOut' = [op |-> "roundTrip",
                       val |-> ProcessSync(there, cloudRaw),
                       ret |-> SyncedVal(there, cloudRaw),
                       updated |-> Adopts(there, cloudRaw)]
  /\ UNCHANGED <<pfCurrent, pfDefault, notPf>>

PfNext ==
  \/ PfWrapData
  \/ PfWrapAgain
  \/ PfProcessSync
  \/ PfRoundTrip

SpecWrap == PfInit /\ [][PfNext]_vars

\* C23: wrapData returns a value of wrapper shape unchanged, with its
\* data, updatedAt and dirty flag; wraps a present value of another shape
\* as {data: x, updatedAt: 0, dirty: false} and an absent one as {data:
\* default, updatedAt: 0, dirty: false}; and applied to its own result it
\* returns that result.
C23_WrapIdempotent ==
  /\ pfOut.op = "wrapData" =>
       /\ pfCurrent.kind = "wrapper" => pfOut.val = pfCurrent
       /\ pfCurrent.kind \in {"raw", "empty"} =>
            pfOut.val = Wrapper(pfCurrent.data, 0, FALSE)
       /\ pfCurrent.kind = "absent" =>
            pfOut.val = Wrapper(pfDefault, 0, FALSE)
  /\ pfOut.op = "wrapAgain" => pfOut.val = WrapData(pfCurrent, pfDefault)

\* a dirty wrapper went through wrapData twice and came back as it was
C23_Witness ==
  /\ pfOut.op = "wrapAgain"
  /\ pfCurrent.kind = "wrapper"
  /\ pfCurrent.dirty
  /\ pfCurrent.updatedAt > 0
  /\ pfOut.val = pfCurrent

\* the slice was never written on this device: nothing cached, or a legacy
\* value
NeverWritten(e) == e.kind \in {"absent", "empty", "raw"}

\* C24: on a pull, a slice never written on this device (nothing cached or
\* a legacy value cached) adopts the remote value when the bootstrap
\* response holds a non-empty one, a wrapper or a legacy value alike, and
\* keeps what is cached when the response holds nothing for the slice.
C24_NeverWrittenAdopts ==
  (pfOut.op = "processSync" /\ NeverWritten(pfCurrent)) =>
    /\ pfCloud.kind = "wrapper" =>
         /\ pfOut.val = pfCloud
         /\ pfOut.ret = pfCloud.data
         /\ pfOut.updated
    /\ pfCloud.kind = "raw" =>
         /\ pfOut.val.kind = "wrapper"
         /\ pfOut.val.data = pfCloud.data
         /\ pfOut.ret = pfCloud.data
         /\ pfOut.updated
    /\ pfCloud.kind = "null" =>
         /\ pfOut.val = pfCurrent
         /\ pfOut.ret = CurrentWrapper(pfCurrent).data
         /\ ~pfOut.updated

\* a legacy value was cached and the response held a legacy value: the
\* cache now holds the remote one
C24_Witness ==
  /\ pfOut.op = "processSync"
  /\ pfCurrent.kind = "raw"
  /\ pfCloud.kind = "raw"
  /\ pfCloud.data # pfCurrent.data
  /\ pfOut.val.data = pfCloud.data

\* the update requests of sync passes for slice s that are in flight
SyncUpdates(s) ==
  LET mine == {t \in InFlight : /\ t.op = "sync"
                                /\ t.slice = s
                                /\ t.pc \in {"upd_sent", "upd_resp"}}
  IN BagCardinality([t \in mine |-> CopiesIn(t, inflight)])

\* C25: in the timestamp+dirty service at most one sync pass is in flight
\* at a time, so no slice has two update requests of sync passes in
\* flight at once.
C25_OneSyncPass == \A s \in Slices : SyncUpdates(s) <= 1

\* ======================================================================
\* /api/auth on KV sessions (auth.ts lines 47-116), one KV call at a time
\* ======================================================================
\* a request being handled: the cookie it came with, the await it is at,
\* what get returned and the pair generated for it
Handler(id, action, ck, late) ==
  [id |-> id, action |-> action, ck |-> ck, pc |-> "start", late |-> late,
   isValid |-> FALSE, access |-> <<>>, refresh |-> <<>>]

\* a response: its status, its Set-Cookie header, the access token of its
\* body, and whether its cookie had been exchanged before
Response(h, st, setCookie, access) ==
  [id |-> h.id, action |-> h.action, ck |-> h.ck, late |-> h.late,
   st |-> st, setCookie |-> setCookie, access |-> access,
   again |-> h.ck \in rfExchanged]

\* the cookies a client can present: none, or a token of a response sent
Presentable == {NoCookie} \cup {i.tok : i \in auIssued}

RfInit ==
  /\ auVariant = "kv"
  /\ auCode = Undef
  /\ auStore = [k \in Keys |-> NoValue]
  /\ auKv = {}
  /\ auNow = 0
  /\ auIssued = {}
  /\ auStale = {}
  /\ rfHandlers = {}
  /\ rfDone = {}
  /\ rfExchanged = {}
  /\ rfReqs = 0
  /\ rfEmitted = {}
  /\ EngineOff
  /\ DfOff
  /\ TdOff
  /\ SeOff
  /\ PfOff
  /\ BcOff

\* the tokens generated so far: those sent and those of the requests
\* still being handled
Generated ==
  Cardinality(auIssued)
    + 2 * Cardinality({h \in rfHandlers : h.access # <<>>})

\* generateToken twice, lines 68-69 and 100-101
NewPair(h) ==
  [h EXCEPT !.access = Uuid(Generated + 1), !.refresh = Uuid(Generated + 2)]

Issued(h) ==
  {Issue(h.access, "access", Undef), Issue(h.refresh, "refresh", Undef)}

\* a request arrives, lines 47-66, 81-86 and 110-115: up to its first call
\* of KV_STORE for a session key
RfReceive(action, code, ck) ==
  /\ rfReqs < RfMaxReqs
  /\ rfReqs' = rfReqs + 1
  /\ LET h == Handler(rfReqs + 1, action, ck, ck \in rfDone)
         refreshToken == GetCookie(ck)
     IN IF action = "login" THEN
          IF code # StoredCode(auCode) THEN
            /\ rfEmitted' = {Response(h, "401", "none", <<>>)}
            /\ UNCHANGED rfHandlers
          ELSE
            /\ Generated + 2 <= 2 * RfMaxPairs
            /\ rfHandlers' = rfHandlers \cup {[NewPair(h) EXCEPT
                                                 !.pc = "putAccess"]}
            /\ rfEmitted' = {}
        ELSE IF action = "refresh" THEN
          IF Falsy(refreshToken) THEN
            /\ rfEmitted' = {Response(h, "401", "none", <<>>)}
            /\ UNCHANGED rfHandlers
          ELSE
            /\ rfHandlers' = rfHandlers \cup {[h EXCEPT !.pc = "get"]}
            /\ rfEmitted' = {}
        ELSE
          IF Falsy(refreshToken) THEN
            /\ rfEmitted' = {Response(h, "200", "clear", <<>>)}
            /\ UNCHANGED rfHandlers
          ELSE
            /\ rfHandlers' = rfHandlers \cup {[h EXCEPT !.pc = "delete"]}
            /\ rfEmitted' = {}
  /\ UNCHANGED <<rfDone, rfExchanged, auVariant, auCode, auStore, auKv,
                 auNow, auIssued, auStale, notRf>>

\* refresh, line 89: KV_STORE.get of the presented token
RfGet(h) ==
  /\ h.pc = "get"
  /\ rfHandlers' = (rfHandlers \ {h}) \cup
       {[h EXCEPT !.pc = "delete",
                  !.isValid = Live(auKv, "refresh", GetCookie(h.ck), auNow)]}
  /\ rfEmitted' = {}
  /\ UNCHANGED <<rfDone, rfExchanged, rfReqs, auVars, notRf>>

\* refresh, lines 92-101, and logout, lines 113-115: KV_STORE.delete of the
\* presented token and what follows up to the next call of KV_STORE
RfDelete(h) ==
  /\ h.pc = "delete"
  /\ auKv' = Delete(auKv, "refresh", GetCookie(h.ck))
  /\ IF h.action = "logout" THEN
       /\ rfHandlers' = rfHandlers \ {h}
       /\ rfEmitted' = {Response(h, "200", "clear", <<>>)}
       /\ UNCHANGED rfDone
     ELSE IF ~h.isValid THEN
       /\ rfHandlers' = rfHandlers \ {h}
       /\ rfEmitted' = {Response(h, "200", "clear", <<>>)}
       /\ rfDone' = rfDone \cup {h.ck}
     ELSE
       /\ Generated + 2 <= 2 * RfMaxPairs
       /\ rfHandlers' = (rfHandlers \ {h}) \cup
                          {[NewPair(h) EXCEPT !.pc = "putAccess"]}
       /\ rfEmitted' = {}
       /\ UNCHANGED rfDone
  /\ UNCHANGED <<rfExchanged, rfReqs, auVariant, auCode, auStore, auNow,
                 auIssued, auStale, notRf>>

\* lines 72 and 103: KV_STORE.put of the access token
RfPutAccess(h) ==
  /\ h.pc = "putAccess"
  /\ auKv' = auKv \cup {Session("access", h.access, auNow + AccessTtl)}
  /\ rfHandlers' = (rfHandlers \ {h}) \cup {[h EXCEPT !.pc = "putRefresh"]}
  /\ rfEmitted' = {}
  /\ UNCHANGED <<rfDone, rfExchanged, rfReqs, auVariant, auCode, auStore,
                 auNow, auIssued, auStale, notRf>>

\* lines 75-77 and 104-106: KV_STORE.put of the refresh token, and the
\* response with the pair
RfPutRefresh(h) ==
  /\ h.pc = "putRefresh"
  /\ auKv' = auKv \cup {Session("refresh", h.refresh, auNow + RefreshTtl)}
  /\ rfHandlers' = rfHandlers \ {h}
  /\ rfEmitted' = {Response(h, "200", "set", h.access)}
  /\ rfDone' = IF h.action = "refresh" THEN rfDone \cup {h.ck} ELSE rfDone
  /\ rfExchanged' = IF h.action = "refresh" THEN rfExchanged \cup {h.ck}
                    ELSE rfExchanged
  /\ auIssued' = auIssued \cup Issued(h)
  /\ UNCHANGED <<rfReqs, auVariant, auCode, auStore, auNow, auStale,
                 notRf>>

\* time passes on the server while requests are handled
RfTick ==
  /\ auNow < AuMaxTime
  /\ auNow' = auNow + 1
  /\ rfEmitted' = {}
  /\ UNCHANGED <<rfHandlers, rfDone, rfExchanged, rfReqs, auVariant, auCode,
                 auStore, auKv, auIssued, auStale, notRf>>

RfNext ==
  \/ \E action \in {"login", "refresh", "logout"}, code \in ReqCodes,
        ck \in Presentable : RfReceive(action, code, ck)
  \/ \E h \in rfHandlers : RfGet(h)
  \/ \E h \in rfHandlers : RfDelete(h)
  \/ \E h \in rfHandlers : RfPutAccess(h)
  \/ \E h \in rfHandlers : RfPutRefresh(h)
  \/ RfTick

SpecRf == RfInit /\ [][RfNext]_vars

\* C27: under KV sessions, once a refresh request presenting refresh token
\* r has been answered, r is no longer in the store, and every refresh
\* request that presents r after that is answered without an access token
\* and with the cookie cleared.
C27_UsedRefreshTokenIsDead ==
  /\ \A r \in rfDone : \A k \in auKv : ~(k.ns = "refresh" /\ k.tok = r)
  /\ \A e \in rfEmitted :
       (e.action = "refresh" /\ e.late) =>
         /\ e.access = <<>>
         /\ e.setCookie = "clear"

\* a refresh token was exchanged for a new pair, presented again and
\* answered with a cleared cookie
C27_Witness ==
  \E e \in rfEmitted :
    /\ e.action = "refresh"
    /\ e.late
    /\ e.setCookie = "clear"
    /\ \E i \in auIssued : i.kind = "refresh" /\ i.tok = e.ck
    /\ Cardinality(auIssued) >= 4

\* a logout carrying tok as its refresh_token cookie
LogoutWith(tok) ==
  AuthRequest("logout", Undef, Undef, Undef, NoHeader, tok)

\* C28: on the D1 /api/auth the response to a logout clears the refresh
\* cookie, so a refresh the same client sends after its logout carries no
\* valid refresh token and is rejected.
C28_D1LogoutClearsCookie ==
  auVariant = "d1" =>
    \A i \in auIssued :
      i.kind = "refresh" =>
        LET out == D1AuthResult(LogoutWith(i.tok))
        IN /\ out.setCookie = "clear"
           /\ ~D1AuthResult(RefreshWith(Jar(out, i.tok))).ok

\* C29: in the timestamp+dirty service the updatedAt of the cached
\* snapshot of a slice never decreases, whatever the interleaving of
\* saves, acknowledgements, sync passes and pulls.
C29_UpdatedAtNeverDecreases ==
  [][\A s \in Slices :
       CurrentWrapper(ls'[s]).updatedAt >= CurrentWrapper(ls[s]).updatedAt]_vars

\* C30: in the timestamp+dirty service every pull whose bootstrap request
\* succeeded is followed by a sync pass, which with a token in hand sends
\* one update request for each slice still dirty after reconciliation and
\* none for a clean slice.
C30_PullThenPush ==
  [][((\E e \in emitted' : e.ev = "pulled") /\ accessToken # 0) =>
       \A s \in Slices :
         SyncUpdates(s)' - SyncUpdates(s) = IF IsDirty(ls'[s]) THEN 1 ELSE 0]_vars

\* a pull was reconciled with a token in hand while one slice was dirty
\* and another clean: the dirty one has an update request of the pass in
\* flight, the clean one has none
C30_Witness ==
  /\ accessToken # 0
  /\ \E e \in Pulled : \E s, c \in Slices :
       /\ IsDirty(e.was[s])
       /\ IsDirty(ls[s])
       /\ \E t \in InFlight : /\ t.op = "sync"
                               /\ t.slice = s
                               /\ t.pc = "upd_sent"
                               /\ t.w = ls[s]
       /\ ~IsDirty(ls[c])
       /\ SyncUpdates(c) = 0

\* C31: in the timer-debounced service a save to one slice never cancels
\* the pending debounced push of another slice: a save call leaves the
\* timers of every slice it does not write pending.
C31_OtherSliceTimerKept ==
  [][\A s \in TdSlices :
       (tdCalls' = tdCalls + 1 /\ tdLocal'[s] = tdLocal[s]) =>
         \A tm \in BagToSet(tdTimers) :
           tm.slice = s => BagIn(tm, tdTimers')]_vars

\* C33: in the timer-debounced service every caller and every save queued
\* while a refresh was in flight is resumed when that refresh completes,
\* whether it succeeded or failed.
C33_QueuedAreResumed ==
  \A e \in tdEmitted :
    e.ev = "refreshed" => e.resumed = Len(e.queued)

\* C34: in the timer-debounced service one save leads to at most two
\* update requests, the first attempt and one retry after a refresh,
\* whatever the server answers.
C34_AtMostTwoRequests ==
  (tdCalls = 1 /\ tdBurst.k = 1) => Len(tdBurst.sent) <= 2

\* C32: in a sync pass of the timestamp+dirty service a 401 answer to the
\* update request of a slice is followed by one refresh and one retry of
\* that update within the pass: the pass gives a slice up on a 401 only
\* when the answer is the one to its second request.
C32_SyncRetriesOnce ==
  \A e \in emitted :
    (e.ev = "syncEnd" /\ e.st = "401") => e.reqs = 2

\* C35: under KV sessions each refresh token is exchanged for a new pair
\* at most once, whatever the interleaving of the KV calls of the
\* requests: no refresh is answered with an access token for a cookie
\* that an earlier answer already exchanged.
C35_ExchangedAtMostOnce ==
  \A e \in rfEmitted :
    (e.action = "refresh" /\ e.access # <<>>) => ~e.again

\* C36: in the dirty-flag service, whenever USER_LOGGED_OUT is set no
\* access token is held in memory or in localStorage, however logout()
\* interleaves with a token refresh in flight.
C36_LoggedOutHoldsNoToken ==
  seLoggedOut => (seMem = NoTok /\ seStored = NoTok)

\* ======================================================================
\* The dirty-flag service against the caching /api/bootstrap,
\* src/unnamed/part_003
\* ======================================================================
\* categories = JSON.parse(configMap.get("categories") || "[]"), line 39:
\* the empty list, which the client's test `cloudData.categories` accepts
BcEmptyList == -2

\* lines 26-83: responseData as read from the config table
ResponseData(store) ==
  [s \in DfSlices |->
     IF s = "categories" /\ store[s] = 0 THEN BcEmptyList ELSE store[s]]

\* the place of value v among the writes of slice s, 0 for a value that
\* was there before any of them
Written(s, v) ==
  LET at == {i \in 1..Len(bcLog[s]) : bcLog[s][i] = v}
  IN IF at = {} THEN 0 ELSE CHOOSE i \in at : \A j \in at : j <= i

BcInit == DfInit

\* /api/update answering the request of t with status st; the cache of the
\* bootstrap module is out of its reach
BcUpdateEndpoint(t, st) ==
  /\ t.pc = "upd_sent"
  /\ IF st = "ok"
       THEN /\ dfRemote' = [dfRemote EXCEPT ![t.slice] = t.data]
            /\ bcLog' = [bcLog EXCEPT ![t.slice] = Append(@, t.data)]
            /\ bcMine' = [bcMine EXCEPT ![t.slice] = Len(bcLog[t.slice]) + 1]
       ELSE UNCHANGED <<dfRemote, bcLog, bcMine>>
  /\ dfInflight' = (dfInflight (-) SetToBag({t}))
                     (+) SetToBag({[t EXCEPT !.pc = "upd_resp", !.st = st]})
  /\ dfEmitted' = {}
  /\ UNCHANGED <<dfLocal, dfDirty, dfPendingSync, dfOnline, dfToken,
                 dfElapsed, dfHeld, dfCalls, bcCache, engineVars, tdVars,
                 auVars, seVars, rfVars, pfVars>>

\* onRequestGet, lines 9-117: the cached data while the entry is fresh,
\* else the table, which then fills the cache; 500 when the query throws
BcBootstrapEndpoint(t, ok) ==
  /\ t.pc = "boot_sent"
  /\ bcCache # <<>> => ok
  /\ LET data == IF bcCache # <<>> THEN bcCache[1]
                 ELSE ResponseData(dfRemote)
     IN /\ dfInflight' = (dfInflight (-) SetToBag({t}))
                           (+) SetToBag({[t EXCEPT !.pc = "boot_resp",
                                            !.st = IF ok THEN "ok" ELSE "500",
                                            !.body = IF ok THEN data
                                                     ELSE t.body]})
        /\ bcCache' = IF ok THEN <<data>> ELSE bcCache
        /\ dfEmitted' = IF ok THEN {[ev |-> "served", body |-> data,
                                     cached |-> bcCache # <<>>]}
                        ELSE {}
  /\ UNCHANGED <<dfLocal, dfDirty, dfPendingSync, dfOnline, dfToken,
                 dfElapsed, dfHeld, dfRemote, dfCalls, bcLog, bcMine,
                 engineVars, tdVars, auVars, seVars, rfVars, pfVars>>

\* Date.now() - cached.timestamp reaches CACHE_TTL (line 15), or the
\* module instance holding the Map is replaced
BcExpire ==
  /\ bcCache # <<>>
  /\ bcCache' = <<>>
  /\ dfEmitted' = {}
  /\ UNCHANGED <<dfLocal, dfDirty, dfPendingSync, dfOnline, dfToken,
                 dfElapsed, dfHeld, dfRemote, dfInflight, dfCalls, bcLog,
                 bcMine, engineVars, tdVars, auVars, seVars, rfVars, pfVars>>

\* another device writes slice s of the config table
BcOtherPush(s) ==
  /\ DfCanCall
  /\ dfCalls' = dfCalls + 1
  /\ dfRemote' = [dfRemote EXCEPT ![s] = DfMaxCalls + dfCalls + 1]
  /\ bcLog' = [bcLog EXCEPT ![s] = Append(@, DfMaxCalls + dfCalls + 1)]
  /\ dfEmitted' = {}
  /\ UNCHANGED <<dfLocal, dfDirty, dfPendingSync, dfOnline, dfToken,
                 dfElapsed, dfHeld, dfInflight, bcCache, bcMine, engineVars,
                 tdVars, auVars, seVars, rfVars, pfVars>>

BcNext ==
  \/ \E s \in DfSlices, force \in BOOLEAN : DfSaveCall(s, force)
  \/ DfTick
  \/ \E t \in DfTasks, st \in {"ok", "401", "500"} : BcUpdateEndpoint(t, st)
  \/ \E t \in DfTasks, ok \in BOOLEAN : BcBootstrapEndpoint(t, ok)
  \/ BcExpire
  \/ \E s \in DfSlices : BcOtherPush(s)
  \/ \E force \in BOOLEAN : DfSyncCall(force)
  \/ \E t \in DfTasks, delivered \in BOOLEAN : DfSaveResponse(t, delivered)
  \/ \E t \in DfTasks, delivered \in BOOLEAN : DfSyncPull(t, delivered)
  \/ DfPullCall
  \/ \E t \in DfTasks, delivered \in BOOLEAN : DfPullResponse(t, delivered)

SpecBc == BcInit /\ [][BcNext]_vars

\* C37: with the caching bootstrap endpoint, the pull phase of
\* syncPendingChanges never replaces the cached value of a slice with a
\* value that was in the table before the value this device last pushed
\* successfully, and a bootstrap response served after a successful update
\* of a slice holds the value of the latest update of that slice.
C37_PullNotOlderThanPush ==
  \A e \in dfEmitted :
    /\ e.ev = "syncPulled" =>
         \A s \in DfSlices :
           (dfLocal[s] = e.body[s] /\ e.was[s] # e.body[s]) =>
             Written(s, e.body[s]) >= bcMine[s]
    /\ e.ev = "served" =>
         \A s \in DfSlices :
           bcLog[s] # <<>> => e.body[s] = bcLog[s][Len(bcLog[s])]

\* C38: a background value b saved and pushed successfully by one device
\* (timestamp+dirty service, update endpoint on D1), then pulled through
\* the bootstrap endpoint on D1 by a device whose cache of the slice is
\* fresh (updatedAt 0, not dirty), is adopted there as the same value b.
C38_BackgroundRoundTrip ==
  pfOut.op = "roundTrip" =>
    /\ pfOut.updated
    /\ pfOut.ret = pfCurrent.data
    /\ pfOut.val.data = pfCurrent.data

====
